---- MODULE Spec2Model ----
(***************************************************************************)
(* MoltKing / Discordia bot: the per-tick decision engine                   *)
(* (src/discordia_bot.py): GameState, Pathfinder and DiscordiaBot.think,    *)
(* the tick loop DiscordiaBot.run, and the direct-command record written    *)
(* by src/ai_strategy_service.py.                                           *)
(*                                                                         *)
(* Conventions.  A position is the tuple <<x, y>>.  Python dicts are        *)
(* records/functions with string keys, d.get(k, default) is Get(d, k,       *)
(* default).  Python lists are sequences.  Python's None is the empty       *)
(* tuple <<>> where the code only tests the value for truthiness            *)
(* (a path, a move), and the string "None" for a missing scalar.            *)
(***************************************************************************)
EXTENDS Integers, Sequences, FiniteSets, TLC

VARIABLES
    pc,                  \* position of DiscordiaBot.run inside one loop iteration
    turn,                \* loop counter of run()
    state,               \* the GameState of the current iteration (None between ticks)
    strategy,            \* the strategy dict think() loaded for this tick
    actions,             \* think()'s result: the tick's action batch
    processed,           \* think()'s processed set at return
    reserved,            \* pathfinder.reserved at think()'s return
    tower_sites_placed,  \* DiscordiaBot.tower_sites_placed (survives ticks)
    last_direct_actions, \* last_direct_actions.json (exists: the file is there)
    pfq,                 \* pathfinder laboratory: the query
    pfr,                 \* pathfinder laboratory: the answer
    stop_flag,           \* DiscordiaBot._stop_flag
    fetched,             \* what get_state() returned in this iteration
    sent                 \* what send_actions() did in this iteration

vars == <<pc, turn, state, strategy, actions, processed, reserved,
          tower_sites_placed, last_direct_actions, pfq, pfr,
          stop_flag, fetched, sent>>

None == <<>>

----------------------------------------------------------------------------
(* Generic helpers for Python built-ins                                     *)

Get(d, k, default) == IF k \in DOMAIN d THEN d[k] ELSE default

Abs(n) == IF n < 0 THEN -n ELSE n

Max2(a, b) == IF a >= b THEN a ELSE b

Range(s) == {s[i] : i \in 1..Len(s)}

\* list.sort(key=...): stable, ascending.  keys[i] is the key of s[i].
SortedInsert(done, dkeys, x, k) ==
    \* position after every element whose key is <= k (stability)
    LET n == Cardinality({i \in 1..Len(done) : dkeys[i] <= k})
    IN  [items |-> SubSeq(done, 1, n) \o <<x>> \o SubSeq(done, n + 1, Len(done)),
         keys  |-> SubSeq(dkeys, 1, n) \o <<k>> \o SubSeq(dkeys, n + 1, Len(dkeys))]

\* the insertions of s[j], s[j + 1], ... into the sorted prefix acc.  A
\* range of more than one element is split in halves and the first half is
\* evaluated before the second is entered, so that the evaluation depth
\* stays logarithmic in the length of the list
RECURSIVE SortAcc(_, _, _, _)
SortAcc(acc, s, keys, j) ==
    IF j > Len(s) THEN acc
    ELSE IF j = Len(s) THEN SortedInsert(acc.items, acc.keys, s[j], keys[j])
    ELSE LET mid  == (j + Len(s)) \div 2
             left == SortAcc(acc, SubSeq(s, 1, mid), SubSeq(keys, 1, mid), j)
         IN  IF DOMAIN left = {} THEN left
             ELSE SortAcc(left, s, keys, mid + 1)

StableSort(s, keys) == SortAcc([items |-> <<>>, keys |-> <<>>], s, keys, 1).items

\* min(list, key=...): index of the first element with the smallest key
ArgMin(keys) ==
    CHOOSE i \in 1..Len(keys) :
        /\ \A j \in 1..Len(keys) : keys[i] <= keys[j]
        /\ \A j \in 1..(i - 1) : keys[j] > keys[i]

\* max(list, key=...): index of the first element with the largest key
ArgMax(keys) ==
    CHOOSE i \in 1..Len(keys) :
        /\ \A j \in 1..Len(keys) : keys[i] >= keys[j]
        /\ \A j \in 1..(i - 1) : keys[j] < keys[i]

----------------------------------------------------------------------------
(* Position                                                                 *)

PosOf(d) == <<d.x, d.y>>

\* Position.dist: Chebyshev distance
dist(a, b) == Max2(Abs(a[1] - b[1]), Abs(a[2] - b[2]))

\* Position.neighbors: north, south, east, west, in this order
neighbors(p) ==
    << [pos |-> <<p[1], p[2] - 1>>, dir |-> "north"],
       [pos |-> <<p[1], p[2] + 1>>, dir |-> "south"],
       [pos |-> <<p[1] + 1, p[2]>>, dir |-> "east"],
       [pos |-> <<p[1] - 1, p[2]>>, dir |-> "west"] >>

----------------------------------------------------------------------------
(* GameState                                                                *)

RECURSIVE ChunkItems(_, _, _)
\* concatenation of chunk.get(key, []) over the chunks, in chunk order
ChunkItems(chunks, key, i) ==
    IF i > Len(chunks) THEN <<>>
    ELSE Get(chunks[i], key, <<>>) \o ChunkItems(chunks, key, i + 1)

\* the global coordinates of the cells of one chunk's terrain grid of a class
ChunkCells(chunk, class) ==
    LET terrain == Get(chunk, "terrain", <<>>)
        cx == Get(chunk, "chunkX", 0)
        cy == Get(chunk, "chunkY", 0)
    IN  UNION { { <<cx * 25 + (lx - 1), cy * 25 + (ly - 1)>> :
                    lx \in {c \in 1..Len(terrain[ly]) : terrain[ly][c] = class} } :
                ly \in 1..Len(terrain) }

\* fault variant of is_protected_of: the shield ends one level early
is_protected_below_five(level) == level < 5

is_protected_of(level) == level < 6

\* GameState.__init__ and GameState._build_maps
GameState(data) ==
    LET agent     == Get(data, "agent", [x \in {} |-> 0])
        my_level  == Get(agent, "level", 1)
        my_id     == Get(agent, "id", "None")
        my_units  == Get(data, "myUnits", <<>>)
        my_structures == Get(data, "myStructures", <<>>)
        chunks    == Get(data, "visibleChunks", <<>>)
        NotMine(e) == Get(e, "ownerId", "None") /= my_id
        IsSite(s) == Get(s, "type", "None") = "construction_site"
        enemies   == SelectSeq(ChunkItems(chunks, "units", 1), NotMine)
    IN  [ tick          |-> Get(data, "tick", 0),
          my_level      |-> my_level,
          is_protected  |-> is_protected_of(my_level),
          my_units      |-> my_units,
          my_structures |-> my_structures,
          all_unit_positions |->
              {PosOf(u) : u \in Range(my_units)} \cup {PosOf(e) : e \in Range(enemies)},
          structure_positions |-> {PosOf(s) : s \in Range(my_structures)},
          walls         |-> UNION {ChunkCells(c, "wall") : c \in Range(chunks)},
          swamps        |-> UNION {ChunkCells(c, "swamp") : c \in Range(chunks)},
          sources       |-> ChunkItems(chunks, "sources", 1),
          enemies       |-> enemies,
          enemy_structures |-> SelectSeq(ChunkItems(chunks, "structures", 1), NotMine),
          construction_sites |-> SelectSeq(my_structures, IsSite) ]

\* a subscript of _build_maps that has no default finds no key: u['x'] and
\* u['y'] of own units, own structures and units of other owners
build_maps_raises(data) ==
    LET my_id  == Get(Get(data, "agent", [x \in {} |-> 0]), "id", "None")
        chunks == Get(data, "visibleChunks", <<>>)
        NoPos(e) == ~({"x", "y"} \subseteq DOMAIN e)
    IN  \/ \E u \in Range(Get(data, "myUnits", <<>>)) : NoPos(u)
        \/ \E s \in Range(Get(data, "myStructures", <<>>)) : NoPos(s)
        \/ \E u \in Range(ChunkItems(chunks, "units", 1)) :
              Get(u, "ownerId", "None") /= my_id /\ NoPos(u)

\* GameState(data) as a call: the object, or the KeyError raised
new_GameState(data) ==
    IF build_maps_raises(data) THEN [raised |-> TRUE]
    ELSE [raised |-> FALSE, gs |-> GameState(data)]

\* GameState.is_blocked
is_blocked(gs, pos) ==
    \/ pos \in gs.walls
    \/ pos \in gs.structure_positions
    \/ pos \in gs.all_unit_positions

\* GameState.is_empty
is_empty(gs, pos) ==
    /\ pos \notin gs.walls
    /\ pos \notin gs.structure_positions
    /\ pos \notin gs.all_unit_positions
    /\ \A s \in Range(gs.enemy_structures) : PosOf(s) /= pos

OfType(seq, t) == LET Is(u) == u.type = t IN SelectSeq(seq, Is)

get_workers(gs) == OfType(gs.my_units, "worker")
get_soldiers(gs) == OfType(gs.my_units, "soldier")
get_spawns(gs) == OfType(gs.my_structures, "spawn")
get_towers(gs) == OfType(gs.my_structures, "tower")
\* fault variant of get_sources_with_energy: a source without an energy
\* field counts as one that has energy
get_sources_energy_assumed(gs) ==
    LET Has(s) == Get(s, "energy", 1) > 0 IN SelectSeq(gs.sources, Has)

get_sources_with_energy(gs) ==
    LET Has(s) == Get(s, "energy", 0) > 0 IN SelectSeq(gs.sources, Has)

----------------------------------------------------------------------------
(* Pathfinder.  A pathfinder object is the record                           *)
(*   [state, reserved, action_buffer]; action_buffer maps pos -> expiry.    *)

Pathfinder(gs, action_buffer) ==
    [state |-> gs, reserved |-> {}, action_buffer |-> action_buffer]

\* Pathfinder.reserve
reserve(pf, pos) == [pf EXCEPT !.reserved = @ \cup {pos}]

\* fault variant of is_passable: the unit-occupancy test is missing
is_passable_ignoring_units(pf, pos) ==
    /\ pos \notin pf.state.walls
    /\ pos \notin pf.state.structure_positions
    /\ pos \notin pf.reserved
    /\ ~(pos \in DOMAIN pf.action_buffer /\ pf.state.tick < pf.action_buffer[pos])

\* fault variant of is_passable: the exclusion still holds at its expiry tick
is_passable_after_expiry(pf, pos) ==
    /\ pos \notin pf.state.walls
    /\ pos \notin pf.state.structure_positions
    /\ pos \notin pf.reserved
    /\ pos \notin pf.state.all_unit_positions
    /\ ~(pos \in DOMAIN pf.action_buffer /\ pf.state.tick <= pf.action_buffer[pos])

\* Pathfinder.is_passable
is_passable(pf, pos) ==
    /\ pos \notin pf.state.walls
    /\ pos \notin pf.state.structure_positions
    /\ pos \notin pf.reserved
    /\ pos \notin pf.state.all_unit_positions
    /\ ~(pos \in DOMAIN pf.action_buffer /\ pf.state.tick < pf.action_buffer[pos])

\* Pathfinder.get_cost
get_cost(pf, pos) == IF pos \in pf.state.swamps THEN 5 ELSE 1

\* heapq on tuples (f_score, counter, ...): counter is unique, so the heap
\* pops in the order of the list kept sorted by (f, c).
HeapLess(a, b) == a.f < b.f \/ (a.f = b.f /\ a.c < b.c)

heappush(open, e) ==
    LET n == Cardinality({i \in 1..Len(open) : HeapLess(open[i], e)})
    IN  SubSeq(open, 1, n) \o <<e>> \o SubSeq(open, n + 1, Len(open))

\* the search state at the top of find_path's while loop (start /= goal)
AStarInit(start) ==
    [ open    |-> << [f |-> 0, c |-> 0, cur |-> start, path |-> <<start>>] >>,
      visited |-> {},
      g       |-> (start :> 0),
      counter |-> 0,
      done    |-> FALSE,
      path    |-> None ]

\* fault variant of AStarRelax: every blocked tile is let through, not
\* only the goal
AStarRelaxThroughBlocked(pf, goal, st, e, npos) ==
    IF npos \in st.visited THEN st
    ELSE LET tentative_g == st.g[e.cur] + get_cost(pf, npos)
         IN  IF npos \in DOMAIN st.g /\ ~(tentative_g < st.g[npos]) THEN st
             ELSE LET f_score == tentative_g + Abs(npos[1] - goal[1])
                                             + Abs(npos[2] - goal[2])
                  IN  [st EXCEPT
                         !.g = (npos :> tentative_g) @@ @,
                         !.counter = @ + 1,
                         !.open = heappush(@, [f |-> f_score, c |-> st.counter + 1,
                                               cur |-> npos,
                                               path |-> Append(e.path, npos)])]

\* one neighbour of the for loop in find_path
AStarRelax(pf, goal, st, e, npos) ==
    IF npos \in st.visited THEN st
    ELSE IF ~is_passable(pf, npos) /\ npos /= goal THEN st
    ELSE LET tentative_g == st.g[e.cur] + get_cost(pf, npos)
         IN  IF npos \in DOMAIN st.g /\ ~(tentative_g < st.g[npos]) THEN st
             ELSE LET f_score == tentative_g + Abs(npos[1] - goal[1])
                                             + Abs(npos[2] - goal[2])
                  IN  [st EXCEPT
                         !.g = (npos :> tentative_g) @@ @,
                         !.counter = @ + 1,
                         !.open = heappush(@, [f |-> f_score, c |-> st.counter + 1,
                                               cur |-> npos,
                                               path |-> Append(e.path, npos)])]

\* fault variant of at_goal_region: success two tiles away from the goal
at_goal_region_wide(current, goal) == dist(current, goal) <= 2

\* the success test of find_path: current.dist(goal) <= 1
at_goal_region(current, goal) == dist(current, goal) <= 1

\* fault variant of AStarStep: the loop test lets one node more through
AStarStepOneMore(pf, goal, max_steps, st) ==
    IF st.done THEN st
    ELSE IF st.open = <<>> \/ ~(Cardinality(st.visited) <= max_steps * 10)
    THEN [st EXCEPT !.done = TRUE, !.path = None]
    ELSE LET e  == Head(st.open)
             s0 == [st EXCEPT !.open = Tail(@)]
         IN  IF e.cur \in st.visited THEN s0
             ELSE LET s1 == [s0 EXCEPT !.visited = @ \cup {e.cur}]
                  IN  IF at_goal_region(e.cur, goal)
                      THEN [s1 EXCEPT !.done = TRUE, !.path = e.path]
                      ELSE LET nb == neighbors(e.cur)
                               r1 == AStarRelax(pf, goal, s1, e, nb[1].pos)
                               r2 == AStarRelax(pf, goal, r1, e, nb[2].pos)
                               r3 == AStarRelax(pf, goal, r2, e, nb[3].pos)
                           IN  AStarRelax(pf, goal, r3, e, nb[4].pos)

\* one iteration of find_path's while loop (or the exit from it)
AStarStep(pf, goal, max_steps, st) ==
    IF st.done THEN st
    ELSE IF st.open = <<>> \/ ~(Cardinality(st.visited) < max_steps * 10)
    THEN [st EXCEPT !.done = TRUE, !.path = None]
    ELSE LET e  == Head(st.open)
             s0 == [st EXCEPT !.open = Tail(@)]
         IN  IF e.cur \in st.visited THEN s0
             ELSE LET s1 == [s0 EXCEPT !.visited = @ \cup {e.cur}]
                  IN  IF at_goal_region(e.cur, goal)
                      THEN [s1 EXCEPT !.done = TRUE, !.path = e.path]
                      ELSE LET nb == neighbors(e.cur)
                               r1 == AStarRelax(pf, goal, s1, e, nb[1].pos)
                               r2 == AStarRelax(pf, goal, r1, e, nb[2].pos)
                               r3 == AStarRelax(pf, goal, r2, e, nb[3].pos)
                           IN  AStarRelax(pf, goal, r3, e, nb[4].pos)

\* the while loop of find_path run for at most n iterations, split in
\* halves so that the evaluation depth stays logarithmic in n
RECURSIVE AStarIterate(_, _, _, _, _)
AStarIterate(pf, goal, max_steps, st, n) ==
    IF st.done THEN st
    ELSE IF n <= 1 THEN AStarStep(pf, goal, max_steps, st)
    ELSE AStarIterate(pf, goal, max_steps,
                      AStarIterate(pf, goal, max_steps, st, n \div 2),
                      n - (n \div 2))

\* the while loop run to its exit.  Every iteration pops one entry, an
\* iteration pushes at most four, and at most max_steps * 10 iterations
\* push: the loop is left within 40 * max_steps + 2 iterations
AStarRun(pf, goal, max_steps, st) ==
    AStarIterate(pf, goal, max_steps, st, 40 * max_steps + 2)

\* Pathfinder.find_path: the path, or None
find_path(pf, start, goal, max_steps) ==
    IF start = goal THEN <<start>>
    ELSE AStarRun(pf, goal, max_steps, AStarInit(start)).path

\* fault variant of GreedyScan: the passability test is missing
RECURSIVE GreedyScanUnchecked(_, _, _, _, _, _)
GreedyScanUnchecked(pf, nb, goal, i, best_dist, best_move) ==
    IF i > Len(nb) THEN best_move
    ELSE IF dist(nb[i].pos, goal) < best_dist
         THEN GreedyScanUnchecked(pf, nb, goal, i + 1, dist(nb[i].pos, goal),
                                  <<nb[i].dir, nb[i].pos>>)
         ELSE GreedyScanUnchecked(pf, nb, goal, i + 1, best_dist, best_move)

\* the greedy scan of get_next_move: best strictly improving passable neighbour
RECURSIVE GreedyScan(_, _, _, _, _, _)
GreedyScan(pf, nb, goal, i, best_dist, best_move) ==
    IF i > Len(nb) THEN best_move
    ELSE IF is_passable(pf, nb[i].pos) /\ dist(nb[i].pos, goal) < best_dist
         THEN GreedyScan(pf, nb, goal, i + 1, dist(nb[i].pos, goal),
                         <<nb[i].dir, nb[i].pos>>)
         ELSE GreedyScan(pf, nb, goal, i + 1, best_dist, best_move)

\* the direction get_next_move derives from path[1] (Python index)
StepDirection(start, next_pos) ==
    LET dx == next_pos[1] - start[1]
        dy == next_pos[2] - start[2]
    IN  IF dx = 1 THEN "east"
        ELSE IF dx = -1 THEN "west"
        ELSE IF dy = 1 THEN "south"
        ELSE "north"

\* Pathfinder.get_next_move: <<direction, new_pos>>, or None
get_next_move(pf, unit, goal) ==
    LET start == PosOf(unit)
    IN  IF dist(start, goal) <= 1 THEN None
        ELSE LET best_move == GreedyScan(pf, neighbors(start), goal, 1,
                                         dist(start, goal), None)
             IN  IF best_move /= None THEN best_move
                 ELSE LET path == find_path(pf, start, goal, 30)
                      IN  IF path /= None /\ Len(path) > 1
                             /\ is_passable(pf, path[2])
                          THEN <<StepDirection(start, path[2]), path[2]>>
                          ELSE None

----------------------------------------------------------------------------
(* DiscordiaBot.think.  The allocation context threaded through the phases  *)
(* is ctx = [actions, processed, pf, placed]: the local list `actions`,     *)
(* the local set `processed`, the local `pathfinder` and                    *)
(* self.tower_sites_placed.                                                 *)

\* load_strategy_params: file.readable is false when strategy_params.json
\* is missing or reading it raises, else file.params is the parsed dict
DEFAULT_STRATEGY ==
    [ worker_cap |-> 120, soldier_cap |-> 100, tower_cap |-> 30,
      priority_mode |-> "balanced", spawn_energy_reserve |-> 300 ]

load_strategy_params(file) ==
    IF ~file.readable THEN DEFAULT_STRATEGY
    ELSE [k \in DOMAIN DEFAULT_STRATEGY \cup DOMAIN file.params |->
            IF k \in DOMAIN file.params THEN file.params[k]
            ELSE DEFAULT_STRATEGY[k]]

\* fault variant of CommitMove: the destination is not reserved
CommitMoveNoReserve(ctx, unit, nb) ==
    [ctx EXCEPT
       !.actions = Append(@, [unitId |-> unit.id, type |-> "move",
                              direction |-> nb.dir]),
       !.processed = @ \cup {unit.id}]

\* actions.append(move); pathfinder.reserve(npos); processed.add(id)
CommitMove(ctx, unit, nb) ==
    [ctx EXCEPT
       !.actions = Append(@, [unitId |-> unit.id, type |-> "move",
                              direction |-> nb.dir]),
       !.pf = reserve(@, nb.pos),
       !.processed = @ \cup {unit.id}]

\* the same three statements for a move returned by get_next_move
CommitNextMove(ctx, unit, move) ==
    CommitMove(ctx, unit, [dir |-> move[1], pos |-> move[2]])

\* actions.append(action); processed.add(id); pathfinder.reserve(own tile)
CommitStay(ctx, unit, action) ==
    [ctx EXCEPT
       !.actions = Append(@, action),
       !.processed = @ \cup {unit.id},
       !.pf = reserve(@, PosOf(unit))]

\* index of the first neighbour (N, S, E, W) that is passable and farther
\* from spawn_pos than the unit is; 0 when there is none
FirstAway(pf, p, spawn_pos) ==
    LET nb == neighbors(p)
        S  == {i \in 1..4 : /\ is_passable(pf, nb[i].pos)
                            /\ dist(nb[i].pos, spawn_pos) > dist(p, spawn_pos)}
    IN  IF S = {} THEN 0 ELSE CHOOSE i \in S : \A j \in S : i <= j

\* index of the first passable neighbour; 0 when there is none
FirstPassable(pf, p) ==
    LET nb == neighbors(p)
        S  == {i \in 1..4 : is_passable(pf, nb[i].pos)}
    IN  IF S = {} THEN 0 ELSE CHOOSE i \in S : \A j \in S : i <= j

\* index of the passable neighbour with the smallest distance to target,
\* the first one on ties; 0 when there is none
BestPassable(pf, p, target) ==
    LET nb == neighbors(p)
        S  == {i \in 1..4 : is_passable(pf, nb[i].pos)}
    IN  IF S = {} THEN 0
        ELSE CHOOSE i \in S :
               \A j \in S : \/ dist(nb[i].pos, target) < dist(nb[j].pos, target)
                            \/ /\ dist(nb[i].pos, target) = dist(nb[j].pos, target)
                               /\ i <= j

\* spawn_accessibility: empty tiles among the eight around the spawn
spawn_accessibility(gs, sp) ==
    Cardinality({d \in ({-1, 0, 1} \X {-1, 0, 1}) \ {<<0, 0>>} :
                   LET pos == <<sp.x + d[1], sp.y + d[2]>>
                   IN  /\ pos \notin gs.walls
                       /\ pos \notin gs.structure_positions
                       /\ pos \notin gs.all_unit_positions})

\* primary_spawn as a list: <<>> for None, <<sp>> otherwise
primary_spawn_of(gs) ==
    LET spawns == get_spawns(gs)
    IN  IF spawns = <<>> THEN <<>>
        ELSE <<spawns[ArgMax([i \in 1..Len(spawns) |->
                                 spawn_accessibility(gs, spawns[i])])]>>

\* the closest spawn of a position: min(spawns, key=dist)
closest_of(list, p) ==
    list[ArgMin([i \in 1..Len(list) |-> dist(p, PosOf(list[i]))])]

SortByDist(list, p) ==
    StableSort(list, [i \in 1..Len(list) |-> dist(PosOf(list[i]), p)])

Prefix(list, n) == SubSeq(list, 1, IF Len(list) < n THEN Len(list) ELSE n)

\* fault variant of Phase1Loop: the "try ANY direction" loop is missing
RECURSIVE Phase1LoopAwayOnly(_, _, _, _)
Phase1LoopAwayOnly(ctx, list, i, spawn_pos) ==
    IF i > Len(list) THEN ctx
    ELSE LET s    == list[i]
             spos == PosOf(s)
             away == FirstAway(ctx.pf, spos, spawn_pos)
             next == IF away /= 0 THEN CommitMove(ctx, s, neighbors(spos)[away])
                     ELSE ctx
         IN  Phase1LoopAwayOnly(next, list, i + 1, spawn_pos)

\* ---- priority 1: clear spawn area
RECURSIVE Phase1Loop(_, _, _, _)
Phase1Loop(ctx, list, i, spawn_pos) ==
    IF i > Len(list) THEN ctx
    ELSE LET s    == list[i]
             spos == PosOf(s)
             away == FirstAway(ctx.pf, spos, spawn_pos)
             any  == FirstPassable(ctx.pf, spos)
             next == IF away /= 0 THEN CommitMove(ctx, s, neighbors(spos)[away])
                     ELSE IF any /= 0 THEN CommitMove(ctx, s, neighbors(spos)[any])
                     ELSE ctx
         IN  Phase1Loop(next, list, i + 1, spawn_pos)

Phase1(ctx, gs) ==
    LET primary == primary_spawn_of(gs)
    IN  IF primary = <<>> THEN ctx
        ELSE LET spawn_pos == PosOf(primary[1])
                 Near(s) == dist(PosOf(s), spawn_pos) <= 2
                 soldiers_near_spawn ==
                     SortByDist(SelectSeq(get_soldiers(gs), Near), spawn_pos)
             IN  Phase1Loop(ctx, soldiers_near_spawn, 1, spawn_pos)

\* ---- construction sites: transfer energy to complete them
RECURSIVE Phase2Workers(_, _, _, _)
Phase2Workers(ctx, workers, j, site) ==
    IF j > Len(workers) THEN ctx
    ELSE LET w == workers[j]
             next ==
                 IF w.id \in ctx.processed THEN ctx
                 ELSE IF Get(w, "energy", 0) <= 0 THEN ctx
                 ELSE IF dist(PosOf(w), PosOf(site)) <= 1
                      THEN CommitStay(ctx, w, [unitId |-> w.id, type |-> "transfer",
                                               targetId |-> site.id])
                      ELSE ctx
         IN  Phase2Workers(next, workers, j + 1, site)

RECURSIVE Phase2Sites(_, _, _, _)
Phase2Sites(ctx, sites, i, workers) ==
    IF i > Len(sites) THEN ctx
    ELSE LET site   == sites[i]
             needed == Get(site, "cost", 500) - Get(site, "energy", 0)
         IN  Phase2Sites(IF needed <= 0 THEN ctx
                         ELSE Phase2Workers(ctx, workers, 1, site),
                         sites, i + 1, workers)

Phase2(ctx, gs) == Phase2Sites(ctx, gs.construction_sites, 1, get_workers(gs))

\* fault variant of Phase3Loop: the first spawn stands in for the closest
RECURSIVE Phase3LoopFirstSpawn(_, _, _, _)
Phase3LoopFirstSpawn(ctx, workers, j, spawns) ==
    IF j > Len(workers) THEN ctx
    ELSE LET w == workers[j]
             closest_spawn == spawns[1]
             next ==
                 IF w.id \in ctx.processed THEN ctx
                 ELSE IF Get(w, "energy", 0) <= 0 THEN ctx
                 ELSE IF dist(PosOf(w), PosOf(closest_spawn)) <= 1
                      THEN CommitStay(ctx, w, [unitId |-> w.id, type |-> "transfer",
                                               targetId |-> closest_spawn.id])
                      ELSE ctx
         IN  Phase3LoopFirstSpawn(next, workers, j + 1, spawns)

\* ---- workers: transfer energy to closest spawn
\* the iterations j, j + 1, ... of `for w in workers`, the first half of
\* them evaluated before the second half is entered
RECURSIVE Phase3Loop(_, _, _, _)
Phase3Loop(ctx, workers, j, spawns) ==
    IF j > Len(workers) THEN ctx
    ELSE IF j = Len(workers)
    THEN LET w == workers[j]
             closest_spawn == closest_of(spawns, PosOf(w))
         IN  IF w.id \in ctx.processed THEN ctx
             ELSE IF Get(w, "energy", 0) <= 0 THEN ctx
             ELSE IF dist(PosOf(w), PosOf(closest_spawn)) <= 1
                  THEN CommitStay(ctx, w, [unitId |-> w.id, type |-> "transfer",
                                           targetId |-> closest_spawn.id])
                  ELSE ctx
    ELSE LET mid  == (j + Len(workers)) \div 2
             left == Phase3Loop(ctx, SubSeq(workers, 1, mid), j, spawns)
         IN  IF DOMAIN left = {} THEN left
             ELSE Phase3Loop(left, workers, mid + 1, spawns)

Phase3(ctx, gs) ==
    IF get_spawns(gs) = <<>> THEN ctx
    ELSE Phase3Loop(ctx, get_workers(gs), 1, get_spawns(gs))

\* ---- workers: harvest from sources
\* energy >= energyCapacity * 0.8 on integers: 10 * energy >= 8 * capacity
\* the iterations j, j + 1, ... of `for w in workers`, the first half of
\* them evaluated before the second half is entered
RECURSIVE Phase4Loop(_, _, _, _)
Phase4Loop(ctx, workers, j, sources) ==
    IF j > Len(workers) THEN ctx
    ELSE IF j = Len(workers)
    THEN LET w == workers[j]
             adj == {k \in 1..Len(sources) :
                       dist(PosOf(w), PosOf(sources[k])) <= 1}
         IN  IF w.id \in ctx.processed THEN ctx
             ELSE IF 10 * Get(w, "energy", 0) >= 8 * Get(w, "energyCapacity", 500)
                  THEN ctx
             ELSE IF adj = {} THEN ctx
             ELSE LET src == sources[CHOOSE k \in adj : \A m \in adj : k <= m]
                  IN  CommitStay(ctx, w, [unitId |-> w.id, type |-> "harvest",
                                          targetId |-> src.id])
    ELSE LET mid  == (j + Len(workers)) \div 2
             left == Phase4Loop(ctx, SubSeq(workers, 1, mid), j, sources)
         IN  IF DOMAIN left = {} THEN left
             ELSE Phase4Loop(left, workers, mid + 1, sources)

Phase4(ctx, gs) == Phase4Loop(ctx, get_workers(gs), 1, get_sources_with_energy(gs))

\* ---- clear traffic jam: move empty workers away from spawn first
\* the iterations i, i + 1, ... of `for w in workers_empty_near_spawn[:30]`,
\* the first half of them evaluated before the second half is entered
RECURSIVE Phase5Loop(_, _, _, _)
Phase5Loop(ctx, list, i, sources) ==
    IF i > Len(list) THEN ctx
    ELSE IF i = Len(list)
    THEN LET w == list[i]
             wpos == PosOf(w)
             src_pos == PosOf(closest_of(sources, wpos))
             best == BestPassable(ctx.pf, wpos, src_pos)
         IN  IF best /= 0 THEN CommitMove(ctx, w, neighbors(wpos)[best])
             ELSE ctx
    ELSE LET mid  == (i + Len(list)) \div 2
             left == Phase5Loop(ctx, SubSeq(list, 1, mid), i, sources)
         IN  IF DOMAIN left = {} THEN left
             ELSE Phase5Loop(left, list, mid + 1, sources)

\* fault variant of Phase5: the list is not cut to its first 30 workers
Phase5Uncut(ctx, gs) ==
    LET sources == get_sources_with_energy(gs)
        primary == primary_spawn_of(gs)
        Empty(w) == w.id \notin ctx.processed /\ Get(w, "energy", 0) = 0
        unsorted == SelectSeq(get_workers(gs), Empty)
        workers_empty_near_spawn ==
            IF primary /= <<>> THEN SortByDist(unsorted, PosOf(primary[1]))
            ELSE unsorted
    IN  IF get_spawns(gs) /= <<>> /\ sources /= <<>>
        THEN Phase5Loop(ctx, workers_empty_near_spawn, 1, sources)
        ELSE ctx

Phase5(ctx, gs) ==
    LET sources == get_sources_with_energy(gs)
        primary == primary_spawn_of(gs)
        Empty(w) == w.id \notin ctx.processed /\ Get(w, "energy", 0) = 0
        unsorted == SelectSeq(get_workers(gs), Empty)
        workers_empty_near_spawn ==
            IF primary /= <<>> THEN SortByDist(unsorted, PosOf(primary[1]))
            ELSE unsorted
    IN  IF get_spawns(gs) /= <<>> /\ sources /= <<>>
        THEN Phase5Loop(ctx, Prefix(workers_empty_near_spawn, 30), 1, sources)
        ELSE ctx

\* ---- workers with energy: move toward accessible spawn
RECURSIVE Phase6Loop(_, _, _, _, _)
Phase6Loop(ctx, list, i, primary, sites) ==
    IF i > Len(list) THEN ctx
    ELSE LET w    == list[i]
             wpos == PosOf(w)
             Needs(s) == Get(s, "energy", 0) < Get(s, "cost", 500)
             sites_needing_energy == SelectSeq(sites, Needs)
             \* <<>> stands for the two `continue` branches
             target ==
                 IF primary /= <<>> THEN <<PosOf(primary[1])>>
                 ELSE IF sites /= <<>> /\ sites_needing_energy /= <<>>
                      THEN <<PosOf(closest_of(sites_needing_energy, wpos))>>
                      ELSE <<>>
             best == BestPassable(ctx.pf, wpos, target[1])
         IN  Phase6Loop(IF target /= <<>> /\ best /= 0
                        THEN CommitMove(ctx, w, neighbors(wpos)[best])
                        ELSE ctx,
                        list, i + 1, primary, sites)

Phase6(ctx, gs) ==
    LET primary == primary_spawn_of(gs)
        Loaded(w) == w.id \notin ctx.processed /\ Get(w, "energy", 0) > 50
        unsorted == SelectSeq(get_workers(gs), Loaded)
        workers_with_energy ==
            IF primary /= <<>> THEN SortByDist(unsorted, PosOf(primary[1]))
            ELSE unsorted
    IN  IF primary /= <<>> \/ gs.construction_sites /= <<>>
        THEN Phase6Loop(ctx, Prefix(workers_with_energy, 30), 1, primary,
                        gs.construction_sites)
        ELSE ctx

\* ---- remaining workers: try any available move
RECURSIVE Phase7Loop(_, _, _)
Phase7Loop(ctx, list, i) ==
    IF i > Len(list) THEN ctx
    ELSE LET w   == list[i]
             any == FirstPassable(ctx.pf, PosOf(w))
         IN  Phase7Loop(IF any /= 0 THEN CommitMove(ctx, w, neighbors(PosOf(w))[any])
                        ELSE ctx,
                        list, i + 1)

Phase7(ctx, gs) ==
    LET Left(w) == w.id \notin ctx.processed
        remaining == SelectSeq(get_workers(gs), Left)
    IN  Phase7Loop(ctx, Prefix(remaining, 20), 1)

\* ---- build towers: workers with energy build towers near spawn
\* the offsets (dx, dy) in the order of the two nested range(-4, 5) loops
RingOffsets ==
    LET all == [n \in 1..81 |-> <<((n - 1) \div 9) - 4, ((n - 1) % 9) - 4>>]
        Far(d) == ~(Abs(d[1]) < 2 /\ Abs(d[2]) < 2)
    IN  SelectSeq(all, Far)

\* fault variant of tower_positions_of: tower_sites_placed is not looked at
tower_positions_without_memory(gs, sp, placed) ==
    LET cand == [n \in 1..Len(RingOffsets) |->
                    <<sp.x + RingOffsets[n][1], sp.y + RingOffsets[n][2]>>]
        Ok(pos) ==
            /\ is_empty(gs, pos)
            /\ ~\E t \in Range(get_towers(gs)) \cup Range(gs.construction_sites) :
                   t.x = pos[1] /\ t.y = pos[2]
    IN  SelectSeq(cand, Ok)

\* tower_positions of one spawn, given the current tower_sites_placed
tower_positions_of(gs, sp, placed) ==
    LET cand == [n \in 1..Len(RingOffsets) |->
                    <<sp.x + RingOffsets[n][1], sp.y + RingOffsets[n][2]>>]
        Ok(pos) ==
            /\ is_empty(gs, pos)
            /\ pos \notin placed
            /\ ~\E t \in Range(get_towers(gs)) \cup Range(gs.construction_sites) :
                   t.x = pos[1] /\ t.y = pos[2]
    IN  SelectSeq(cand, Ok)

\* the direction of a build, "" for the `continue` branch
BuildDirection(wpos, tp_pos) ==
    LET dx == tp_pos[1] - wpos[1]
        dy == tp_pos[2] - wpos[2]
    IN  IF dx = 1 THEN "east"
        ELSE IF dx = -1 THEN "west"
        ELSE IF dy = 1 THEN "south"
        ELSE IF dy = -1 THEN "north"
        ELSE ""

RECURSIVE Phase8Builders(_, _, _, _)
\* for w in builders[:5], with the local list tower_positions
Phase8Builders(ctx, tower_positions, list, k) ==
    IF k > Len(list) \/ tower_positions = <<>> THEN ctx
    ELSE LET w    == list[k]
             wpos == PosOf(w)
             closest_tp == tower_positions[
                 ArgMin([n \in 1..Len(tower_positions) |->
                            dist(wpos, tower_positions[n])])]
             direction == BuildDirection(wpos, closest_tp)
             NotTp(p) == p /= closest_tp
             move == get_next_move(ctx.pf, w, closest_tp)
         IN  IF dist(wpos, closest_tp) <= 1
             THEN IF direction = ""
                  THEN Phase8Builders(ctx, tower_positions, list, k + 1)
                  ELSE Phase8Builders(
                         [CommitStay(ctx, w, [unitId |-> w.id, type |-> "build",
                                              direction |-> direction,
                                              structureType |-> "tower"])
                            EXCEPT !.placed = @ \cup {closest_tp}],
                         SelectSeq(tower_positions, NotTp), list, k + 1)
             ELSE Phase8Builders(IF move /= None THEN CommitNextMove(ctx, w, move)
                                 ELSE ctx,
                                 tower_positions, list, k + 1)

RECURSIVE Phase8Spawns(_, _, _, _, _)
Phase8Spawns(ctx, gs, spawns, i, builders) ==
    IF i > Len(spawns) THEN ctx
    ELSE LET tower_positions == tower_positions_of(gs, spawns[i], ctx.placed)
         IN  Phase8Spawns(IF tower_positions = <<>> \/ builders = <<>> THEN ctx
                          ELSE Phase8Builders(ctx, tower_positions,
                                              Prefix(builders, 5), 1),
                          gs, spawns, i + 1, builders)

Phase8(ctx, gs, strat) ==
    LET tower_cap == Get(strat, "tower_cap", 30)
        IsTowerSite(s) == Get(s, "targetType", "None") = "tower"
        Builder(w) == w.id \notin ctx.processed /\ Get(w, "energy", 0) >= 100
        builders == SelectSeq(get_workers(gs), Builder)
    IN  IF /\ get_spawns(gs) /= <<>>
           /\ Len(get_towers(gs)) + Len(SelectSeq(gs.construction_sites, IsTowerSite))
                < tower_cap
        THEN Phase8Spawns(ctx, gs, get_spawns(gs), 1, builders)
        ELSE ctx

\* fault variant of SoldierStep: the processed set is not looked at
SoldierStepAgain(ctx, gs, s) ==
    LET spos   == PosOf(s)
        spawns == get_spawns(gs)
        adj    == {k \in 1..Len(gs.enemies) : dist(spos, PosOf(gs.enemies[k])) <= 1}
        spawn_pos == PosOf(closest_of(spawns, spos))
        away   == FirstAway(ctx.pf, spos, spawn_pos)
        epos   == PosOf(closest_of(gs.enemies, spos))
        chase  == get_next_move(ctx.pf, s, epos)
        back   == get_next_move(ctx.pf, s, spawn_pos)
    IN  IF ~gs.is_protected /\ adj /= {}
        THEN CommitStay(ctx, s,
                 [unitId |-> s.id, type |-> "attack",
                  targetId |-> gs.enemies[CHOOSE k \in adj : \A m \in adj : k <= m].id])
        ELSE IF spawns /= <<>> /\ dist(spos, spawn_pos) <= 2 /\ away /= 0
        THEN CommitMove(ctx, s, neighbors(spos)[away])
        ELSE IF gs.enemies /= <<>> /\ dist(spos, epos) <= 15 /\ chase /= None
        THEN CommitNextMove(ctx, s, chase)
        ELSE IF spawns /= <<>> /\ dist(spos, spawn_pos) > 10 /\ back /= None
        THEN CommitNextMove(ctx, s, back)
        ELSE ctx

\* ---- soldiers
\* one iteration of `for s in soldiers`
SoldierStep(ctx, gs, s) ==
    LET spos   == PosOf(s)
        spawns == get_spawns(gs)
        adj    == {k \in 1..Len(gs.enemies) : dist(spos, PosOf(gs.enemies[k])) <= 1}
        spawn_pos == PosOf(closest_of(spawns, spos))
        away   == FirstAway(ctx.pf, spos, spawn_pos)
        epos   == PosOf(closest_of(gs.enemies, spos))
        chase  == get_next_move(ctx.pf, s, epos)
        back   == get_next_move(ctx.pf, s, spawn_pos)
    IN  IF s.id \in ctx.processed THEN ctx
        ELSE IF ~gs.is_protected /\ adj /= {}
        THEN CommitStay(ctx, s,
                 [unitId |-> s.id, type |-> "attack",
                  targetId |-> gs.enemies[CHOOSE k \in adj : \A m \in adj : k <= m].id])
        ELSE IF spawns /= <<>> /\ dist(spos, spawn_pos) <= 2 /\ away /= 0
        THEN CommitMove(ctx, s, neighbors(spos)[away])
        ELSE IF gs.enemies /= <<>> /\ dist(spos, epos) <= 15 /\ chase /= None
        THEN CommitNextMove(ctx, s, chase)
        ELSE IF spawns /= <<>> /\ dist(spos, spawn_pos) > 10 /\ back /= None
        THEN CommitNextMove(ctx, s, back)
        ELSE ctx

RECURSIVE Phase9Loop(_, _, _, _)
Phase9Loop(ctx, gs, soldiers, i) ==
    IF i > Len(soldiers) THEN ctx
    ELSE Phase9Loop(SoldierStep(ctx, gs, soldiers[i]), gs, soldiers, i + 1)

Phase9(ctx, gs) == Phase9Loop(ctx, gs, get_soldiers(gs), 1)

\* ---- spawning
\* has_space of one spawn
has_space(gs, sp) ==
    \E d \in ({-1, 0, 1} \X {-1, 0, 1}) \ {<<0, 0>>} :
        LET pos == <<sp.x + d[1], sp.y + d[2]>>
        IN  /\ pos \notin gs.walls
            /\ pos \notin gs.structure_positions
            /\ pos \notin gs.all_unit_positions

\* the four branches of the spawning table: the unit type to spawn, ""
\* for none (e: spawn energy, nw/ns: unit counts, wc/sc: caps, r: reserve)
spawn_economy(e, nw, ns, wc, sc, r) ==
    IF nw < wc /\ e >= 100 THEN "worker"
    ELSE IF ns < sc \div 2 /\ e >= r THEN "soldier"
    ELSE ""

\* fault variant of spawn_military: the two rules in the other order
spawn_military_workers_first(e, nw, ns, wc, sc, r) ==
    IF nw < wc \div 2 /\ e >= r THEN "worker"
    ELSE IF ns < sc /\ e >= 150 THEN "soldier"
    ELSE ""

spawn_military(e, nw, ns, wc, sc, r) ==
    IF ns < sc /\ e >= 150 THEN "soldier"
    ELSE IF nw < wc \div 2 /\ e >= r THEN "worker"
    ELSE ""

spawn_defense(e, nw, ns, wc, sc, r) ==
    IF ns < sc /\ e >= r + 150 THEN "soldier"
    ELSE IF nw < wc /\ e >= r + 100 THEN "worker"
    ELSE ""

\* fault variant of spawn_balanced: the caps compared with <=
spawn_balanced_inclusive(e, nw, ns, wc, sc, r) ==
    IF nw <= wc /\ e >= 100 THEN "worker"
    ELSE IF ns <= sc /\ e >= r THEN "soldier"
    ELSE ""

spawn_balanced(e, nw, ns, wc, sc, r) ==
    IF nw < wc /\ e >= 100 THEN "worker"
    ELSE IF ns < sc /\ e >= r THEN "soldier"
    ELSE ""

\* fault variant of spawn_by_mode: the last branch tests for "balanced",
\* so that an unknown mode spawns nothing
spawn_by_mode_strict(priority_mode, e, nw, ns, wc, sc, r) ==
    IF priority_mode = "economy" THEN spawn_economy(e, nw, ns, wc, sc, r)
    ELSE IF priority_mode = "military" THEN spawn_military(e, nw, ns, wc, sc, r)
    ELSE IF priority_mode = "defense" THEN spawn_defense(e, nw, ns, wc, sc, r)
    ELSE IF priority_mode = "balanced" THEN spawn_balanced(e, nw, ns, wc, sc, r)
    ELSE ""

\* the if/elif chain on priority_mode
spawn_by_mode(priority_mode, e, nw, ns, wc, sc, r) ==
    IF priority_mode = "economy" THEN spawn_economy(e, nw, ns, wc, sc, r)
    ELSE IF priority_mode = "military" THEN spawn_military(e, nw, ns, wc, sc, r)
    ELSE IF priority_mode = "defense" THEN spawn_defense(e, nw, ns, wc, sc, r)
    ELSE spawn_balanced(e, nw, ns, wc, sc, r)

\* the actions the spawning loop appends for one accessible spawn
spawn_decision(sp, strat, num_workers, num_soldiers) ==
    LET unitType ==
            spawn_by_mode(Get(strat, "priority_mode", "balanced"),
                          Get(sp, "energy", Get(sp, "store", 0)),
                          num_workers, num_soldiers,
                          Get(strat, "worker_cap", 120),
                          Get(strat, "soldier_cap", 100),
                          Get(strat, "spawn_energy_reserve", 300))
    IN  IF unitType = "" THEN <<>>
        ELSE <<[structureId |-> sp.id, type |-> "spawn", unitType |-> unitType]>>

RECURSIVE Phase10Loop(_, _, _, _, _)
Phase10Loop(ctx, gs, strat, spawns, i) ==
    IF i > Len(spawns) THEN ctx
    ELSE Phase10Loop(
           IF ~has_space(gs, spawns[i]) THEN ctx
           ELSE [ctx EXCEPT !.actions =
                    @ \o spawn_decision(spawns[i], strat, Len(get_workers(gs)),
                                        Len(get_soldiers(gs)))],
           gs, strat, spawns, i + 1)

Phase10(ctx, gs, strat) == Phase10Loop(ctx, gs, strat, get_spawns(gs), 1)

\* the n-th block of think()
RunPhase(ctx, gs, strat, n) ==
    CASE n = 1  -> Phase1(ctx, gs)
      [] n = 2  -> Phase2(ctx, gs)
      [] n = 3  -> Phase3(ctx, gs)
      [] n = 4  -> Phase4(ctx, gs)
      [] n = 5  -> Phase5(ctx, gs)
      [] n = 6  -> Phase6(ctx, gs)
      [] n = 7  -> Phase7(ctx, gs)
      [] n = 8  -> Phase8(ctx, gs, strat)
      [] n = 9  -> Phase9(ctx, gs)
      [] n = 10 -> Phase10(ctx, gs, strat)

\* the blocks lo to hi of think() in program order; the binder makes the
\* context a block leaves a value before the next block is entered
RECURSIVE RunPhases(_, _, _, _, _)
RunPhases(ctx, gs, strat, lo, hi) ==
    IF lo > hi THEN ctx
    ELSE CHOOSE out \in { RunPhases(next, gs, strat, lo + 1, hi) :
                              next \in {RunPhase(ctx, gs, strat, lo)} } : TRUE

\* DiscordiaBot.think: the context at `return actions`
think(gs, strat, placed, action_buffer) ==
    RunPhases([actions |-> <<>>, processed |-> {},
               pf |-> Pathfinder(gs, action_buffer), placed |-> placed],
              gs, strat, 1, 10)

----------------------------------------------------------------------------
(* Snapshots the game can serve.  A snapshot is the raw JSON `data` of      *)
(* /game/state: one visible chunk (0, 0) with a terrain grid, the agent's   *)
(* units and structures, enemy units and structures, and sources.           *)

MaxTurns == 2          \* the `turns` argument of run()

GridSize == 9          \* rows and columns of the terrain grid served

UnitIds == <<"u1", "u2", "u3", "u4">>

\* terrain rows: row ly (1-based) holds the cells with y = ly - 1
TerrainOf(walls, swamps) ==
    [ly \in 1..GridSize |->
        [lx \in 1..GridSize |->
            IF <<lx - 1, ly - 1>> \in walls THEN "wall"
            ELSE IF <<lx - 1, ly - 1>> \in swamps THEN "swamp"
            ELSE "plain"]]

\* a unit of one kind, as the API serves it (soldiers carry no energy field)
MkUnit(id, pos, kind) ==
    CASE kind = "soldier" -> [id |-> id, type |-> "soldier", x |-> pos[1], y |-> pos[2]]
      [] kind = "w0"   -> [id |-> id, type |-> "worker", x |-> pos[1], y |-> pos[2],
                           energy |-> 0]
      [] kind = "w40"  -> [id |-> id, type |-> "worker", x |-> pos[1], y |-> pos[2],
                           energy |-> 40]
      [] kind = "w60"  -> [id |-> id, type |-> "worker", x |-> pos[1], y |-> pos[2],
                           energy |-> 60, energyCapacity |-> 500]
      [] kind = "w450" -> [id |-> id, type |-> "worker", x |-> pos[1], y |-> pos[2],
                           energy |-> 450, energyCapacity |-> 500]

\* the units standing on the slots: kinds[i] is the kind on slots[i]
UnitsOn(slots, kinds) ==
    LET all == [i \in 1..Len(slots) |-> [i |-> i, kind |-> kinds[i]]]
        Present(e) == e.kind /= "absent"
        there == SelectSeq(all, Present)
    IN  [n \in 1..Len(there) |->
            MkUnit(UnitIds[there[n].i], slots[there[n].i], there[n].kind)]

Owned(seq, owner) ==
    [n \in 1..Len(seq) |-> [k \in DOMAIN seq[n] \cup {"ownerId"} |->
                               IF k = "ownerId" THEN owner ELSE seq[n][k]]]

MkData(tick, level, units, structures, walls, swamps, foes, foe_structures, sources) ==
    [ tick |-> tick,
      agent |-> [id |-> "me", level |-> level],
      myUnits |-> units,
      myStructures |-> structures,
      visibleChunks |-> <<
        [ chunkX |-> 0, chunkY |-> 0,
          terrain |-> TerrainOf(walls, swamps),
          units |-> Owned(units, "me") \o Owned(foes, "foe"),
          structures |-> Owned(structures, "me") \o Owned(foe_structures, "foe"),
          sources |-> sources ] >> ]

Spawn(id, pos, energy) ==
    [id |-> id, type |-> "spawn", x |-> pos[1], y |-> pos[2], energy |-> energy]

\* field: one spawn, a source, an enemy soldier in the way and an enemy tower
FieldSnapshots(tick) ==
    { MkData(tick, level,
             UnitsOn(<< <<4, 3>>, <<4, 1>>, <<1, 4>>, <<7, 4>> >>, <<k1, k2, k3, k4>>),
             << Spawn("sp1", <<4, 4>>, 300) >>,
             { <<5, 1>>, <<8, 8>> }, { <<3, 1>> },
             << [id |-> "e1", type |-> "soldier", x |-> 6, y |-> 4] >>,
             << [id |-> "et1", type |-> "tower", x |-> 6, y |-> 1] >>,
             << [id |-> "src0", x |-> 4, y |-> 0, energy |-> 0],
                [id |-> "src1", x |-> 0, y |-> 4, energy |-> 1000] >>) :
        level \in {5, 6},
        k1 \in {"absent", "soldier", "w60"},
        k2 \in {"absent", "soldier", "w0", "w40", "w450"},
        k3 \in {"absent", "w0", "w450"},
        k4 \in {"absent", "soldier", "w450"} }

\* boxed: a unit walled in on its four sides between two spawns
BoxedSnapshots(tick) ==
    { MkData(tick, 6,
             UnitsOn(<< <<4, 4>>, <<2, 4>> >>, <<k1, k2>>),
             IF two THEN << Spawn("sp1", <<4, 1>>, 300), Spawn("sp2", <<4, 7>>, 50) >>
             ELSE << Spawn("sp1", <<4, 1>>, 300) >>,
             { <<4, 3>>, <<4, 5>>, <<3, 4>>, <<5, 4>> }, {},
             <<>>, <<>>, <<>>) :
        two \in BOOLEAN,
        k1 \in {"w450", "w60", "soldier"},
        k2 \in {"absent", "w450"} }

\* site: a tower construction site under way, a funded site and a tower
SiteSnapshots(tick) ==
    { MkData(tick, 6,
             UnitsOn(<< <<4, 3>>, <<5, 5>>, <<1, 1>> >>, <<k1, k2, k3>>),
             (IF with_spawn THEN << Spawn("sp1", <<4, 7>>, 120) >> ELSE <<>>) \o
             << [id |-> "cs1", type |-> "construction_site", targetType |-> "tower",
                 x |-> 4, y |-> 4, energy |-> 100, cost |-> 500],
                [id |-> "cs2", type |-> "construction_site", targetType |-> "tower",
                 x |-> 6, y |-> 6, energy |-> 500],
                [id |-> "t1", type |-> "tower", x |-> 2, y |-> 6, energy |-> 0] >>,
             { <<0, 1>> }, { <<5, 4>> },
             <<>>, <<>>,
             << [id |-> "src1", x |-> 0, y |-> 0, energy |-> 500] >>) :
        with_spawn \in BOOLEAN,
        k1 \in {"absent", "w0", "w60"},
        k2 \in {"absent", "w450"},
        k3 \in {"absent", "soldier", "w450"} }

\* deposit: two spawns, a worker next to the second one, and at times a
\* worker next to the first one and to an unfinished construction site
DepositSnapshots(tick) ==
    { MkData(tick, 6,
             UnitsOn(<< <<5, 4>>, <<2, 2>> >>, <<k1, k2>>),
             << Spawn("sp1", <<1, 1>>, 300), Spawn("sp2", <<5, 5>>, 300) >> \o
             (IF with_site
              THEN << [id |-> "cs1", type |-> "construction_site",
                       targetType |-> "tower", x |-> 3, y |-> 3,
                       energy |-> 0, cost |-> 500] >>
              ELSE <<>>),
             {}, {}, <<>>, <<>>, <<>>) :
        with_site \in BOOLEAN,
        k1 \in {"w0", "w40"},
        k2 \in {"absent", "w450"} }

\* twin: two units, each walled in on its four sides, below one spawn, and
\* an enemy soldier in a corner
TwinSnapshots(tick) ==
    { MkData(tick, 6,
             UnitsOn(<< <<4, 4>>, <<6, 4>> >>, <<k1, k2>>),
             << Spawn("sp1", <<4, 1>>, 300) >>,
             { <<4, 3>>, <<4, 5>>, <<3, 4>>, <<5, 4>>,
               <<6, 3>>, <<6, 5>>, <<7, 4>> }, {},
             << [id |-> "e1", type |-> "soldier", x |-> 8, y |-> 8] >>,
             <<>>, <<>>) :
        k1 \in {"w450", "soldier"},
        k2 \in {"w450", "w60"} }

ArenaSnapshots(tick) ==
    FieldSnapshots(tick) \cup BoxedSnapshots(tick) \cup SiteSnapshots(tick)
    \cup DepositSnapshots(tick) \cup TwinSnapshots(tick)

\* what strategy_params.json can hold when think() reads it
ArenaStrategyFiles ==
    { [readable |-> FALSE], [readable |-> TRUE, params |-> [tower_cap |-> 1]] }

\* the game tick a snapshot fetched in loop iteration t carries
TickOf(t) == 10 + 2 * t

\* the `actions` input of the execute_actions_now tool
DirectInputs ==
    { <<>>,
      << [unitId |-> "u1", type |-> "move", direction |-> "north"],
         [structureId |-> "sp1", type |-> "spawn", unitType |-> "worker"] >> }

----------------------------------------------------------------------------
(* The processes                                                            *)

Init ==
    /\ pc = "top"
    /\ turn = 0
    /\ state = None
    /\ strategy = None
    /\ actions = <<>>
    /\ processed = {}
    /\ reserved = {}
    /\ tower_sites_placed = {}
    /\ last_direct_actions = [exists |-> FALSE]
    /\ pfq = [asked |-> FALSE]
    /\ pfr = [answered |-> FALSE]
    /\ stop_flag = FALSE
    /\ fetched = "none"
    /\ sent = "none"

\* fault variant of LoopEnter: the stop flag is not looked at
LoopEnterUnchecked ==
    /\ pc = "top"
    /\ turn < MaxTurns
    /\ pc' = "fetch"
    /\ fetched' = "none"
    /\ sent' = "none"
    /\ UNCHANGED <<turn, state, strategy, actions, processed, reserved,
                   tower_sites_placed, last_direct_actions, pfq, pfr, stop_flag>>

\* run(): `for turn in range(turns)` has a next value and the stop flag is
\* found clear: the iteration starts
LoopEnter ==
    /\ pc = "top"
    /\ turn < MaxTurns
    /\ ~stop_flag
    /\ pc' = "fetch"
    /\ fetched' = "none"
    /\ sent' = "none"
    /\ UNCHANGED <<turn, state, strategy, actions, processed, reserved,
                   tower_sites_placed, last_direct_actions, pfq, pfr, stop_flag>>

\* run(): the stop flag is found set: break
StopBreak ==
    /\ pc = "top"
    /\ turn < MaxTurns
    /\ stop_flag
    /\ pc' = "done"
    /\ UNCHANGED <<turn, state, strategy, actions, processed, reserved,
                   tower_sites_placed, last_direct_actions, pfq, pfr,
                   stop_flag, fetched, sent>>

\* run(): range(turns) is exhausted
LoopEnd ==
    /\ pc = "top"
    /\ turn >= MaxTurns
    /\ pc' = "done"
    /\ UNCHANGED <<turn, state, strategy, actions, processed, reserved,
                   tower_sites_placed, last_direct_actions, pfq, pfr,
                   stop_flag, fetched, sent>>

\* _handle_sigterm: runs between any two steps of the loop
Sigterm ==
    /\ pc /= "done"
    /\ ~stop_flag
    /\ stop_flag' = TRUE
    /\ UNCHANGED <<pc, turn, state, strategy, actions, processed, reserved,
                   tower_sites_placed, last_direct_actions, pfq, pfr,
                   fetched, sent>>

\* run(): get_state() returned a GameState
GetStateOk(snapshots) ==
    /\ pc = "fetch"
    /\ \E data \in snapshots :
          state' = GameState(data)
    /\ pc' = "think"
    /\ fetched' = "state"
    /\ UNCHANGED <<turn, strategy, actions, processed, reserved,
                   tower_sites_placed, last_direct_actions, pfq, pfr,
                   stop_flag, sent>>

\* fault variant of GetStateFail: a failed fetch leaves the loop
GetStateFailFatal ==
    /\ pc = "fetch"
    /\ pc' = "done"
    /\ fetched' = "failed"
    /\ UNCHANGED <<turn, state, strategy, actions, processed, reserved,
                   tower_sites_placed, last_direct_actions, pfq, pfr,
                   stop_flag, sent>>

\* run(): get_state() returned None: sleep and continue
GetStateFail ==
    /\ pc = "fetch"
    /\ pc' = "sleep"
    /\ fetched' = "failed"
    /\ UNCHANGED <<turn, state, strategy, actions, processed, reserved,
                   tower_sites_placed, last_direct_actions, pfq, pfr,
                   stop_flag, sent>>

\* run(): actions = self.think(state); self.action_buffer is never written
\* after __init__, so the pathfinder gets the empty dict
Think(files) ==
    /\ pc = "think"
    /\ \E file \in files :
          LET strat == load_strategy_params(file)
              out   == think(state, strat, tower_sites_placed, <<>>)
          IN  /\ strategy' = strat
              /\ actions' = out.actions
              /\ processed' = out.processed
              /\ reserved' = out.pf.reserved
              /\ tower_sites_placed' = out.placed
    /\ pc' = "send"
    /\ UNCHANGED <<turn, state, last_direct_actions, pfq, pfr,
                   stop_flag, fetched, sent>>

\* send_actions: nothing is posted for an empty batch; a post ends with
\* status 200, or with another status or an exception
send_actions(batch) ==
    IF batch = <<>> THEN {"empty"} ELSE {"posted", "failed"}

\* fault variant of SendActions: the processed set and the reservation
\* table of the pass are kept
SendActionsKeepingLocals ==
    /\ pc = "send"
    /\ sent' \in send_actions(actions)
    /\ pc' = "sleep"
    /\ state' = None
    /\ strategy' = None
    /\ actions' = <<>>
    /\ UNCHANGED <<turn, processed, reserved, tower_sites_placed,
                   last_direct_actions, pfq, pfr, stop_flag, fetched>>

\* run(): self.send_actions(actions), result ignored; the locals of the
\* iteration are dead afterwards
SendActions ==
    /\ pc = "send"
    /\ sent' \in send_actions(actions)
    /\ pc' = "sleep"
    /\ state' = None
    /\ strategy' = None
    /\ actions' = <<>>
    /\ processed' = {}
    /\ reserved' = {}
    /\ UNCHANGED <<turn, tower_sites_placed, last_direct_actions, pfq, pfr,
                   stop_flag, fetched>>

\* run(): time.sleep(TICK_RATE) and the next iteration
Sleep ==
    /\ pc = "sleep"
    /\ pc' = "top"
    /\ turn' = turn + 1
    /\ UNCHANGED <<state, strategy, actions, processed, reserved,
                   tower_sites_placed, last_direct_actions, pfq, pfr,
                   stop_flag, fetched, sent>>

\* ToolHandlers._handle_execute_actions_now: the exclusion record written
\* for the direct actions `inp` at the service's current tick
exclusion_data_of(inp, current_tick) ==
    [ exists |-> TRUE,
      unit_ids |-> {a.unitId : a \in {b \in Range(inp) : "unitId" \in DOMAIN b}}
                   \cup {a.structureId :
                           a \in {b \in Range(inp) : "structureId" \in DOMAIN b}},
      tick |-> current_tick,
      expires_tick |-> current_tick + 2 ]

\* the strategy service handles execute_actions_now between two bot ticks
ExecuteActionsNow ==
    /\ pc = "top"
    /\ turn < MaxTurns
    /\ \E inp \in DirectInputs :
          /\ inp /= <<>>
          /\ last_direct_actions' = exclusion_data_of(inp, TickOf(turn))
    /\ UNCHANGED <<pc, turn, state, strategy, actions, processed, reserved,
                   tower_sites_placed, pfq, pfr, stop_flag, fetched, sent>>

Next ==
    \/ LoopEnter
    \/ StopBreak
    \/ LoopEnd
    \/ Sigterm
    \/ GetStateOk(ArenaSnapshots(TickOf(turn)))
    \/ GetStateFail
    \/ Think(ArenaStrategyFiles)
    \/ SendActions
    \/ Sleep
    \/ ExecuteActionsNow

Spec == Init /\ [][Next]_vars

----------------------------------------------------------------------------
(* Spawning laboratory: the same loop over snapshots and strategy files     *)
(* that cross the caps, the costs and the reserve.                          *)

\* the eight tiles around a position
Around(p) == {<<p[1] + dx, p[2] + dy>> : dx \in {-1, 0, 1}, dy \in {-1, 0, 1}} \ {p}

SpawnSnapshots(tick) ==
    { MkData(tick, 6,
             UnitsOn(<< <<0, 6>>, <<2, 6>>, <<4, 6>>, <<8, 6>> >>,
                     << IF nw >= 1 THEN "w0" ELSE "absent",
                        IF nw >= 2 THEN "w0" ELSE "absent",
                        IF ns >= 1 THEN "soldier" ELSE "absent",
                        IF ns >= 2 THEN "soldier" ELSE "absent" >>),
             << Spawn("sp1", <<2, 2>>, e),
                IF walled
                THEN Spawn("sp2", <<6, 2>>, 450)
                ELSE [id |-> "sp2", type |-> "spawn", x |-> 6, y |-> 2, store |-> 200] >>,
             IF walled THEN Around(<<6, 2>>) ELSE {}, {},
             <<>>, <<>>, <<>>) :
        e \in {99, 100, 150, 300, 450},
        walled \in BOOLEAN,
        nw \in 0..2,
        ns \in 0..2 }

SpawnStrategyFiles ==
    { [readable |-> FALSE] }
    \cup { [readable |-> TRUE,
            params |-> [worker_cap |-> wc, soldier_cap |-> sc,
                        spawn_energy_reserve |-> r, priority_mode |-> m]] :
             wc \in 1..3, sc \in 1..3, r \in {0, 300},
             m \in {"balanced", "economy", "military", "defense", "turtle"} }
    \cup { [readable |-> TRUE,
            params |-> [worker_cap |-> wc, soldier_cap |-> sc,
                        spawn_energy_reserve |-> r]] :
             wc \in 1..3, sc \in 1..3, r \in {0, 300} }

NextSpawn ==
    \/ LoopEnter
    \/ LoopEnd
    \/ GetStateOk(SpawnSnapshots(TickOf(turn)))
    \/ GetStateFail
    \/ Think(SpawnStrategyFiles)
    \/ SendActions
    \/ Sleep

SpecSpawn == Init /\ [][NextSpawn]_vars

----------------------------------------------------------------------------
(* Pathfinder laboratory: get_next_move and find_path on one query.         *)

PathGoal == <<5, 5>>

PathWalls ==
    SUBSET { <<6, 4>>, <<6, 5>>, <<6, 6>>, <<7, 4>>, <<7, 6>>, <<8, 5>> }
    \cup { Around(PathGoal) }

PathQueries ==
    { [ asked |-> TRUE,
        data |-> MkData(10, 6,
                        << [id |-> "u1", type |-> "soldier",
                            x |-> start[1], y |-> start[2]] >>,
                        <<>>, walls, swamps, <<>>, <<>>, <<>>),
        reserved |-> resv,
        goal |-> PathGoal,
        max_steps |-> ms ] :
        walls \in PathWalls,
        swamps \in { {}, { <<7, 4>>, <<7, 6>>, <<6, 6>> } },
        resv \in { {}, { <<6, 5>> } },
        start \in { <<7, 5>>, <<6, 5>>, <<8, 6>> },
        ms \in {1, 30} }

\* the pathfinder of a query: a fresh one, with the tiles reserved so far
PathPF(q) == [Pathfinder(GameState(q.data), <<>>) EXCEPT !.reserved = q.reserved]

PathUnit(q) == GameState(q.data).my_units[1]

InitPath ==
    /\ pc = "top"
    /\ turn = 0
    /\ state = None
    /\ strategy = None
    /\ actions = <<>>
    /\ processed = {}
    /\ reserved = {}
    /\ tower_sites_placed = {}
    /\ last_direct_actions = [exists |-> FALSE]
    /\ pfq \in {q \in PathQueries : PosOf(PathUnit(q)) \notin GameState(q.data).walls}
    /\ pfr = [answered |-> FALSE]
    /\ stop_flag = FALSE
    /\ fetched = "none"
    /\ sent = "none"

\* the locals of find_path when its while loop is left: len(visited),
\* len(open_set), and whether the loop was left at all
PathSearch(q) ==
    LET st == AStarRun(PathPF(q), q.goal, q.max_steps, AStarInit(PosOf(PathUnit(q))))
    IN  [expanded |-> Cardinality(st.visited), frontier |-> Len(st.open),
         exited |-> st.done]

PathQuery ==
    /\ pfq.asked
    /\ ~pfr.answered
    /\ pfr' = [ answered |-> TRUE,
                move |-> get_next_move(PathPF(pfq), PathUnit(pfq), pfq.goal),
                path |-> find_path(PathPF(pfq), PosOf(PathUnit(pfq)), pfq.goal,
                                   pfq.max_steps),
                search |-> PathSearch(pfq) ]
    /\ UNCHANGED <<pc, turn, state, strategy, actions, processed, reserved,
                   tower_sites_placed, last_direct_actions, pfq,
                   stop_flag, fetched, sent>>

NextPath == PathQuery

SpecPath == InitPath /\ [][NextPath]_vars

----------------------------------------------------------------------------
(* Parsing laboratory: GameState(data) on partial raw snapshots.            *)

\* the record r without the keys outside K
Restrict(r, K) == [k \in K \cap DOMAIN r |-> r[k]]

\* a complete raw snapshot of two chunks
FullData ==
    [ tick |-> 10,
      agent |-> [id |-> "me", level |-> 6],
      myUnits |-> << [id |-> "u1", type |-> "worker", x |-> 1, y |-> 1, energy |-> 40] >>,
      myStructures |-> << Spawn("sp1", <<2, 2>>, 300) >>,
      visibleChunks |-> <<
        [ chunkX |-> 0, chunkY |-> 0,
          terrain |-> << <<"plain", "wall">>, <<"swamp", "plain">> >>,
          units |-> << [id |-> "e1", type |-> "soldier", x |-> 3, y |-> 3,
                        ownerId |-> "foe"] >>,
          structures |-> << [id |-> "et1", type |-> "tower", x |-> 5, y |-> 5,
                             ownerId |-> "foe"] >>,
          sources |-> << [id |-> "src1", x |-> 0, y |-> 4, energy |-> 1000] >> ],
        [ chunkX |-> 1, chunkY |-> 0,
          terrain |-> << <<"wall">> >>,
          sources |-> << [id |-> "src2", x |-> 30, y |-> 4] >> ] >> ]

\* the raw snapshots examined: FullData with top-level keys, agent keys,
\* keys of the first chunk and keys of the own unit left out
ParseInputs ==
    { [k \in top |->
         CASE k = "agent" -> Restrict(FullData.agent, akeys)
           [] k = "myUnits" -> << Restrict(FullData.myUnits[1], ukeys) >>
           [] k = "visibleChunks" ->
                << Restrict(FullData.visibleChunks[1], ckeys \cup {"chunkX"}),
                   FullData.visibleChunks[2] >>
           [] OTHER -> FullData[k]] :
        top \in SUBSET {"tick", "agent", "myUnits", "myStructures", "visibleChunks"} \ {{}},
        akeys \in { {"id", "level"}, {"id"} },
        ukeys \in { {"id", "type", "x", "y", "energy"}, {"id", "type", "x", "y"},
                    {"id", "type", "energy"} },
        ckeys \in { {"chunkY", "terrain", "units", "structures", "sources"},
                    {"chunkY", "units", "structures", "sources"},
                    {"chunkY", "terrain", "structures", "sources"},
                    {"chunkY", "terrain", "units", "sources"},
                    {"chunkY", "terrain", "units", "structures"},
                    {} } }

InitParse ==
    /\ pc = "top"
    /\ turn = 0
    /\ state = None
    /\ strategy = None
    /\ actions = <<>>
    /\ processed = {}
    /\ reserved = {}
    /\ tower_sites_placed = {}
    /\ last_direct_actions = [exists |-> FALSE]
    /\ pfq \in {[asked |-> TRUE, data |-> d] : d \in ParseInputs}
    /\ pfr = [answered |-> FALSE]
    /\ stop_flag = FALSE
    /\ fetched = "none"
    /\ sent = "none"

\* GameState(data) is called on the raw snapshot
ParseQuery ==
    /\ pfq.asked
    /\ ~pfr.answered
    /\ pfr' = [answered |-> TRUE, result |-> new_GameState(pfq.data)]
    /\ UNCHANGED <<pc, turn, state, strategy, actions, processed, reserved,
                   tower_sites_placed, last_direct_actions, pfq,
                   stop_flag, fetched, sent>>

NextParse == ParseQuery

SpecParse == InitParse /\ [][NextParse]_vars

----------------------------------------------------------------------------
(* Passability laboratory: one Pathfinder with an exclusion buffer, tiles   *)
(* reserved one after the other.                                            *)

\* the tiles is_passable is asked about
ProbeTiles == (0..2) \X (0..2)

\* a wall at (1,0), an own spawn at (2,0), an own unit at (0,1), an enemy
\* unit at (1,1) and an enemy tower at (2,1)
PassData(tick) ==
    MkData(tick, 6,
           << [id |-> "u1", type |-> "worker", x |-> 0, y |-> 1, energy |-> 0] >>,
           << Spawn("sp1", <<2, 0>>, 300) >>,
           { <<1, 0>> }, {},
           << [id |-> "e1", type |-> "soldier", x |-> 1, y |-> 1] >>,
           << [id |-> "et1", type |-> "tower", x |-> 2, y |-> 1] >>,
           <<>>)

\* exclusion buffers: position -> expiry tick
PassBuffers ==
    { <<>>,
      (<<2, 2>> :> 10),
      (<<2, 2>> :> 10) @@ (<<0, 2>> :> 11) @@ (<<1, 0>> :> 10) }

InitPass ==
    /\ pc = "top"
    /\ turn = 0
    /\ state = None
    /\ strategy = None
    /\ actions = <<>>
    /\ processed = {}
    /\ reserved = {}
    /\ tower_sites_placed = {}
    /\ last_direct_actions = [exists |-> FALSE]
    /\ pfq \in { [asked |-> TRUE, pf |-> Pathfinder(GameState(PassData(tick)), buffer)] :
                    tick \in {9, 10, 11}, buffer \in PassBuffers }
    /\ pfr = [answered |-> FALSE]
    /\ stop_flag = FALSE
    /\ fetched = "none"
    /\ sent = "none"

\* pathfinder.reserve(pos) for a tile not reserved before
PassReserve ==
    /\ pfq.asked
    /\ \E pos \in { <<0, 0>>, <<2, 2>>, <<0, 2>>, <<0, 1>> } \ pfq.pf.reserved :
          pfq' = [pfq EXCEPT !.pf = reserve(@, pos)]
    /\ UNCHANGED <<pc, turn, state, strategy, actions, processed, reserved,
                   tower_sites_placed, last_direct_actions, pfr,
                   stop_flag, fetched, sent>>

NextPass == PassReserve

SpecPass == InitPass /\ [][NextPass]_vars

----------------------------------------------------------------------------
(* Evacuation laboratory: the same loop over snapshots with soldiers close  *)
(* to a spawn.  sp1 at (4,4) is the primary spawn; sp2 at (7,7) has walls   *)
(* on three of its corners.                                                 *)

\* u1 at (4,3) next to sp1, soldier u2 at (3,2) with walls north and south
\* of it (and at times west), u3 at (7,6) next to sp2 (at times a wall north
\* of it), at times an enemy soldier in the corner (0,8), and at times an
\* enemy tower at (4,2), north of u1 and east of u2
EvacSnapshots(tick) ==
    { MkData(tick, 6,
             UnitsOn(<< <<4, 3>>, <<3, 2>>, <<7, 6>> >>, <<k1, "soldier", k3>>),
             << Spawn("sp1", <<4, 4>>, 0), Spawn("sp2", <<7, 7>>, 0) >>,
             { <<3, 1>>, <<3, 3>>, <<6, 6>>, <<8, 8>>, <<6, 8>> }
                 \cup (IF west THEN { <<2, 2>> } ELSE {})
                 \cup (IF north THEN { <<7, 5>> } ELSE {}),
             {},
             IF foe THEN << [id |-> "e1", type |-> "soldier", x |-> 0, y |-> 8] >>
             ELSE <<>>,
             IF tower THEN << [id |-> "et1", type |-> "tower", x |-> 4, y |-> 2] >>
             ELSE <<>>,
             <<>>) :
        tower \in BOOLEAN,
        k1 \in {"absent", "soldier"},
        k3 \in {"absent", "soldier"},
        west \in BOOLEAN,
        north \in BOOLEAN,
        foe \in BOOLEAN }

NextEvac ==
    \/ LoopEnter
    \/ LoopEnd
    \/ GetStateOk(EvacSnapshots(TickOf(turn)))
    \/ GetStateFail
    \/ Think(ArenaStrategyFiles)
    \/ SendActions
    \/ Sleep

SpecEvac == Init /\ [][NextEvac]_vars

----------------------------------------------------------------------------
(* Declog laboratory: the same loop over snapshots with empty workers, a    *)
(* drained source and a full one, and over a crowd of more than 30 empty    *)
(* workers.                                                                 *)

CrowdIds ==
    << "c01", "c02", "c03", "c04", "c05", "c06", "c07", "c08",
       "c09", "c10", "c11", "c12", "c13", "c14", "c15", "c16",
       "c17", "c18", "c19", "c20", "c21", "c22", "c23", "c24",
       "c25", "c26", "c27", "c28", "c29", "c30", "c31", "c32" >>

\* the crowd: empty workers on every second tile of the rows 0 to 6, a
\* spawn below them, a source in the corner, and walls north and east of
\* the worker above the spawn
CrowdSnapshot(tick) ==
    MkData(tick, 6,
           [n \in 1..Len(CrowdIds) |->
               MkUnit(CrowdIds[n], <<(2 * (n - 1)) % 9, (2 * (n - 1)) \div 9>>, "w0")],
           << Spawn("sp1", <<4, 7>>, 0) >>,
           { <<4, 5>>, <<5, 6>> }, {}, <<>>, <<>>,
           << [id |-> "src1", x |-> 8, y |-> 8, energy |-> 1000] >>)

\* u1 at (2,6) with walls north and south of it (and at times west), u2 at
\* (5,4) next to the spawn, u3 at (3,6) east of u1; the drained source src0
\* is the nearest one of u1, the full source src1 lies west
DeclogSnapshots(tick) ==
    { MkData(tick, 6,
             UnitsOn(<< <<2, 6>>, <<5, 4>>, <<3, 6>> >>, <<k1, k2, k3>>),
             << Spawn("sp1", <<4, 4>>, 0) >>,
             { <<2, 5>>, <<2, 7>> } \cup (IF west THEN { <<1, 6>> } ELSE {}),
             {}, <<>>, <<>>,
             << [id |-> "src0", x |-> 2, y |-> 8, energy |-> 0],
                [id |-> "src1", x |-> 0, y |-> 4, energy |-> 1000] >>) :
        k1 \in {"w0", "w40"},
        k2 \in {"absent", "w0", "w40"},
        k3 \in {"absent", "w450"},
        west \in BOOLEAN }
    \cup { CrowdSnapshot(tick) }

NextDeclog ==
    \/ LoopEnter
    \/ LoopEnd
    \/ GetStateOk(DeclogSnapshots(TickOf(turn)))
    \/ GetStateFail
    \/ Think(ArenaStrategyFiles)
    \/ SendActions
    \/ Sleep

SpecDeclog == Init /\ [][NextDeclog]_vars

----------------------------------------------------------------------------
(* Properties of the batch think() returned (pc = "send")                   *)

\* the unit of the snapshot with an id
UnitOf(id) == CHOOSE u \in Range(state.my_units) : u.id = id

\* the tile one step from pos in a direction
StepTo(pos, direction) ==
    CASE direction = "north" -> <<pos[1], pos[2] - 1>>
      [] direction = "south" -> <<pos[1], pos[2] + 1>>
      [] direction = "east"  -> <<pos[1] + 1, pos[2]>>
      [] direction = "west"  -> <<pos[1] - 1, pos[2]>>

\* indices of the unit actions and of the move actions of the batch
UnitActs == {i \in 1..Len(actions) : "unitId" \in DOMAIN actions[i]}
Moves == {i \in UnitActs : actions[i].type = "move"}

\* the destination of move action i
DestOf(i) == StepTo(PosOf(UnitOf(actions[i].unitId)), actions[i].direction)

\* the tile unit action i reserved: a move its destination, any other
\* action the unit's own tile
ReservationOf(i) ==
    IF actions[i].type = "move" THEN DestOf(i)
    ELSE PosOf(UnitOf(actions[i].unitId))

ReservedBefore(i) == {ReservationOf(j) : j \in {k \in UnitActs : k < i}}

Neighbours4(p) == {neighbors(p)[n].pos : n \in 1..4}

\* C1: no unit id appears in two unit actions of one tick's batch
C1_OneActionPerUnit ==
    pc = "send" =>
        \A i, j \in UnitActs : i /= j => actions[i].unitId /= actions[j].unitId

C3_DistinctDestinations ==
    pc = "send" =>
        \A i, j \in Moves : i /= j => DestOf(i) /= DestOf(j)

\* C3 witness: two units moved and the tile the first one took is a
\* neighbour tile of the second one
C3_Witness ==
    /\ pc = "send"
    /\ \E i, j \in Moves :
          /\ i < j
          /\ actions[i].unitId /= actions[j].unitId
          /\ DestOf(i) \in Neighbours4(PosOf(UnitOf(actions[j].unitId)))

\* C4: while the exclusion record of the direct-command channel has not
\* expired, the batch holds no action for a unit id the record names
C4_ExcludedUnitsSkipped ==
    (pc = "send" /\ last_direct_actions.exists
       /\ state.tick < last_direct_actions.expires_tick) =>
        \A i \in UnitActs : actions[i].unitId \notin last_direct_actions.unit_ids

\* C7: the protection flag is true exactly below level 6, and below level 6
\* the batch holds no attack action
C7_ProtectedNoAttack ==
    pc = "send" =>
        /\ state.is_protected = (state.my_level < 6)
        /\ state.my_level < 6 => \A i \in UnitActs : actions[i].type /= "attack"

\* C7 witness: a protected tick with a soldier next to an enemy unit
C7_Witness ==
    /\ pc = "send"
    /\ state.is_protected
    /\ \E s \in Range(get_soldiers(state)), e \in Range(state.enemies) :
          dist(PosOf(s), PosOf(e)) <= 1

\* the spawn actions of the batch
SpawnActs == {i \in 1..Len(actions) : actions[i].type = "spawn"}

SpawnEnergy(sp) == Get(sp, "energy", Get(sp, "store", 0))

\* C8: in balanced mode no worker is spawned at or above worker_cap and no
\* soldier is spawned at or above soldier_cap
C8_BalancedRespectsCaps ==
    (pc = "send" /\ strategy.priority_mode = "balanced") =>
        /\ Len(get_workers(state)) >= strategy.worker_cap =>
               \A i \in SpawnActs : actions[i].unitType /= "worker"
        /\ Len(get_soldiers(state)) >= strategy.soldier_cap =>
               \A i \in SpawnActs : actions[i].unitType /= "soldier"

\* C8 witness: balanced mode, the workers at their cap, an accessible
\* spawn that could pay for a worker, and a soldier spawned instead
C8_Witness ==
    /\ pc = "send"
    /\ strategy.priority_mode = "balanced"
    /\ Len(get_workers(state)) = strategy.worker_cap
    /\ \E sp \in Range(get_spawns(state)) :
          /\ spawn_accessibility(state, sp) > 0
          /\ SpawnEnergy(sp) >= 100
          /\ \E i \in SpawnActs : /\ actions[i].structureId = sp.id
                                  /\ actions[i].unitType = "soldier"

\* C9: in military mode every accessible spawn with energy >= 150 spawns a
\* soldier while the soldiers are below their cap
C9_MilitarySpawnsSoldier ==
    (pc = "send" /\ strategy.priority_mode = "military") =>
        \A sp \in Range(get_spawns(state)) :
            ( /\ spawn_accessibility(state, sp) > 0
              /\ Len(get_soldiers(state)) < strategy.soldier_cap
              /\ SpawnEnergy(sp) >= 150 ) =>
            \E i \in SpawnActs : /\ actions[i].structureId = sp.id
                                 /\ actions[i].unitType = "soldier"

\* C9 witness: military mode, both rules of the table applicable to an
\* accessible spawn
C9_Witness ==
    /\ pc = "send"
    /\ strategy.priority_mode = "military"
    /\ Len(get_soldiers(state)) < strategy.soldier_cap
    /\ Len(get_workers(state)) < strategy.worker_cap \div 2
    /\ \E sp \in Range(get_spawns(state)) :
          /\ spawn_accessibility(state, sp) > 0
          /\ SpawnEnergy(sp) >= 150
          /\ SpawnEnergy(sp) >= strategy.spawn_energy_reserve

\* the balanced row of the spawning table, for one spawn of the snapshot
BalancedRow(sp) ==
    IF Len(get_workers(state)) < strategy.worker_cap /\ SpawnEnergy(sp) >= 100
    THEN "worker"
    ELSE IF Len(get_soldiers(state)) < strategy.soldier_cap
            /\ SpawnEnergy(sp) >= strategy.spawn_energy_reserve
    THEN "soldier"
    ELSE ""

\* C10: under a priority_mode other than economy, military and defense the
\* spawn actions are those of the balanced row: none for a spawn without a
\* free neighbour tile or without a matching rule, else one of that type
C10_UnknownModeIsBalanced ==
    (pc = "send" /\ strategy.priority_mode \notin {"economy", "military", "defense"}) =>
        /\ \A sp \in Range(get_spawns(state)) :
              LET mine == {i \in SpawnActs : actions[i].structureId = sp.id}
              IN  IF spawn_accessibility(state, sp) > 0 /\ BalancedRow(sp) /= ""
                  THEN /\ Cardinality(mine) = 1
                       /\ \A i \in mine : actions[i].unitType = BalancedRow(sp)
                  ELSE mine = {}
        /\ \A i \in SpawnActs :
              \E sp \in Range(get_spawns(state)) : actions[i].structureId = sp.id

\* C10 witness: an unknown mode and a spawn action in the batch
C10_Witness ==
    /\ pc = "send"
    /\ strategy.priority_mode = "turtle"
    /\ SpawnActs /= {}

----------------------------------------------------------------------------
(* Properties of the pathfinder (pathfinder laboratory)                     *)

\* no passable 4-neighbour of the unit is closer to the goal than the unit
NoImprovingNeighbour(q) ==
    \A n \in 1..4 :
        LET npos == neighbors(PosOf(PathUnit(q)))[n].pos
        IN  ~(is_passable(PathPF(q), npos)
              /\ dist(npos, q.goal) < dist(PosOf(PathUnit(q)), q.goal))

\* C5: get_next_move returns None exactly when the unit is within distance 1
\* of the goal, or no passable neighbour is closer and the A* search with
\* max_steps = 30 returns no path
C5_NextMoveNoneIff ==
    pfr.answered =>
        ( pfr.move = None <=>
            \/ dist(PosOf(PathUnit(pfq)), pfq.goal) <= 1
            \/ /\ NoImprovingNeighbour(pfq)
               /\ find_path(PathPF(pfq), PosOf(PathUnit(pfq)), pfq.goal, 30) = None )

\* C5 witness: away from the goal, no improving neighbour, the search finds
\* a way round and its first step is returned
C5_Witness ==
    /\ pfr.answered
    /\ dist(PosOf(PathUnit(pfq)), pfq.goal) > 1
    /\ NoImprovingNeighbour(pfq)
    /\ pfr.move /= None

\* the cost of the path up to its i-th position, the way find_path adds it up
RECURSIVE CumCost(_, _, _)
CumCost(pf, path, i) ==
    IF i <= 1 THEN 0 ELSE CumCost(pf, path, i - 1) + get_cost(pf, path[i])

\* C6: a path find_path returns ends within distance 1 of the goal and its
\* cumulative cost never decreases along the path
C6_PathEndsAtGoalRegion ==
    (pfr.answered /\ pfr.path /= None) =>
        /\ dist(pfr.path[Len(pfr.path)], pfq.goal) <= 1
        /\ \A i \in 1..(Len(pfr.path) - 1) :
              CumCost(PathPF(pfq), pfr.path, i) <= CumCost(PathPF(pfq), pfr.path, i + 1)

\* C6 witness: a returned path of several steps that crosses a swamp
C6_Witness ==
    /\ pfr.answered
    /\ pfr.path /= None
    /\ Len(pfr.path) > 2
    /\ \E i \in 2..Len(pfr.path) : get_cost(PathPF(pfq), pfr.path[i]) = 5

----------------------------------------------------------------------------
(* Properties of the tick loop                                              *)

\* C13: a failed fetch is followed by no decision pass and no submission,
\* a failed submission is ignored, after either the loop sleeps and goes to
\* the next iteration, and the loop is left only when the turns are used up
\* or the stop flag is set
C13_FailuresNotFatal ==
    /\ [](pc \in {"think", "send"} => fetched = "state")
    /\ [](sent /= "none" => fetched = "state")
    /\ [](pc = "done" => (turn = MaxTurns \/ stop_flag))
    /\ [][ ( \/ (fetched' = "failed" /\ fetched /= "failed")
             \/ (sent' = "failed" /\ sent /= "failed") ) => pc' = "sleep" ]_vars
    /\ [][ pc = "sleep" => (pc' = "sleep" \/ (pc' = "top" /\ turn' = turn + 1)) ]_vars

\* C13 witness: the fetch of an earlier iteration failed and the loop is at
\* the head of a further iteration it is going to run
C13_Witness ==
    /\ pc = "top"
    /\ turn >= 1
    /\ turn < MaxTurns
    /\ ~stop_flag
    /\ fetched = "failed"

\* the loop leaves only from its head, and an iteration that has fetched
\* goes through think and send whatever the stop flag is
TickRunsToCompletion ==
    /\ [][ pc' = "done" => pc \in {"top", "done"} ]_vars
    /\ [][ pc = "think" => pc' \in {"think", "send"} ]_vars
    /\ [][ pc = "send" => pc' \in {"send", "sleep"} ]_vars

\* C14 as stated: once the stop flag is set no fetch is made, and a tick
\* that has fetched runs its decision pass and submission before the exit
C14_NoFetchOnceStopped ==
    /\ [][ stop_flag => ~(pc = "fetch" /\ pc' \in {"think", "sleep"}) ]_vars
    /\ TickRunsToCompletion

\* C14 amended: once the test at the loop head finds the stop flag set no
\* fetch is made (the flag set after the test lets that iteration fetch),
\* and a tick that has fetched runs its decision pass and submission before
\* the exit
C14_StopObservedAtLoopHead ==
    /\ [][ (pc = "top" /\ stop_flag) => pc' \in {"top", "done"} ]_vars
    /\ TickRunsToCompletion

\* C14 witness: the stop flag is set and the tick in progress has its batch
\* ready to submit
C14_Witness ==
    /\ pc = "send"
    /\ stop_flag
    /\ actions /= <<>>

----------------------------------------------------------------------------
(* Properties of the worker and soldier phases                              *)

\* the unit actions of the batch for one unit id
ActsOf(id) == {i \in UnitActs : actions[i].unitId = id}

\* the distance from a unit to the own spawn nearest to it
NearestSpawnDist(u) ==
    CHOOSE d \in {dist(PosOf(u), PosOf(sp)) : sp \in Range(get_spawns(state))} :
        \A sp \in Range(get_spawns(state)) : d <= dist(PosOf(u), PosOf(sp))

\* the unit stands next to a construction site that still needs energy
NextToUnfinishedSite(u) ==
    \E site \in Range(state.construction_sites) :
        /\ Get(site, "cost", 500) - Get(site, "energy", 0) > 0
        /\ dist(PosOf(u), PosOf(site)) <= 1

\* the case of C11: a loaded worker next to its nearest spawn and next to
\* no unfinished construction site
DepositCase(w) ==
    /\ Get(w, "energy", 0) > 0
    /\ Len(get_spawns(state)) > 0
    /\ NearestSpawnDist(w) <= 1
    /\ ~NextToUnfinishedSite(w)

\* C11: such a worker has exactly one action in the batch, a transfer to a
\* spawn at the nearest distance
C11_AdjacentWorkerDeposits ==
    pc = "send" =>
        \A w \in Range(get_workers(state)) :
            DepositCase(w) =>
                /\ Cardinality(ActsOf(w.id)) = 1
                /\ \A i \in ActsOf(w.id) :
                      /\ actions[i].type = "transfer"
                      /\ \E sp \in Range(get_spawns(state)) :
                            /\ sp.id = actions[i].targetId
                            /\ dist(PosOf(w), PosOf(sp)) = NearestSpawnDist(w)

\* C11 witness: the worker is next to the second of two spawns, and another
\* worker of the snapshot is next to an unfinished site
C11_Witness ==
    /\ pc = "send"
    /\ Len(get_spawns(state)) > 1
    /\ \E w \in Range(get_workers(state)) :
          /\ DepositCase(w)
          /\ dist(PosOf(w), PosOf(get_spawns(state)[1])) > 1
    /\ \E w \in Range(get_workers(state)) :
          Get(w, "energy", 0) > 0 /\ NextToUnfinishedSite(w)

\* the tiles of the grid served
Tiles == (0..(GridSize - 1)) \X (0..(GridSize - 1))

\* the four neighbour tiles of the unit are impassable in the snapshot
WalledIn(u) ==
    \A n \in Neighbours4(PosOf(u)) : ~is_passable(Pathfinder(state, <<>>), n)

\* C12: a unit whose four neighbour tiles are impassable has no move in the
\* batch, and get_next_move returns None for it whatever the goal
C12_WalledInUnitStays ==
    pc = "send" =>
        \A u \in Range(state.my_units) :
            WalledIn(u) =>
                /\ \A i \in ActsOf(u.id) : actions[i].type /= "move"
                /\ \A goal \in Tiles :
                      get_next_move(Pathfinder(state, <<>>), u, goal) = None

\* C12 witness: a walled-in soldier with an enemy in chasing range that it
\* cannot attack
C12_Witness ==
    /\ pc = "send"
    /\ \E s \in Range(get_soldiers(state)) :
          /\ WalledIn(s)
          /\ \E e \in Range(state.enemies) :
                /\ dist(PosOf(s), PosOf(e)) > 1
                /\ dist(PosOf(s), PosOf(e)) <= 15

----------------------------------------------------------------------------
(* Properties of the parser (parsing laboratory)                            *)

\* the key is absent from the raw snapshot / from every chunk of it
Absent(k) == k \notin DOMAIN pfq.data

AbsentInChunks(k) ==
    \A c \in Range(Get(pfq.data, "visibleChunks", <<>>)) : k \notin DOMAIN c

LevelAbsent == Absent("agent") \/ "level" \notin DOMAIN pfq.data.agent

\* a unit or structure the parser reads the position of has no x or y
PositionMissing ==
    \/ \E u \in Range(Get(pfq.data, "myUnits", <<>>)) : ~({"x", "y"} \subseteq DOMAIN u)
    \/ \E s \in Range(Get(pfq.data, "myStructures", <<>>)) : ~({"x", "y"} \subseteq DOMAIN s)

\* absent collections parse as empty, an absent tick as 0, a source without
\* energy as one without energy
DefaultsOtherThanLevel(gs) ==
    /\ Absent("tick") => gs.tick = 0
    /\ Absent("myUnits") => gs.my_units = <<>>
    /\ Absent("myStructures") =>
          (gs.my_structures = <<>> /\ gs.structure_positions = {}
           /\ gs.construction_sites = <<>>)
    /\ Absent("visibleChunks") =>
          (gs.walls = {} /\ gs.swamps = {} /\ gs.sources = <<>>
           /\ gs.enemies = <<>> /\ gs.enemy_structures = <<>>)
    /\ AbsentInChunks("terrain") => (gs.walls = {} /\ gs.swamps = {})
    /\ AbsentInChunks("units") => gs.enemies = <<>>
    /\ AbsentInChunks("structures") => gs.enemy_structures = <<>>
    /\ AbsentInChunks("sources") => gs.sources = <<>>
    /\ \A s \in Range(gs.sources) :
          "energy" \notin DOMAIN s => s \notin Range(get_sources_with_energy(gs))
    /\ \A w \in Range(get_workers(gs)) :
          "energy" \notin DOMAIN w => Get(w, "energy", 0) = 0

\* C15 as stated: no absent optional field makes the parse fail, absent
\* collections parse as empty and absent numbers, the agent level among
\* them, as zero
C15_AbsentFieldsParseAsZero ==
    pfr.answered =>
        /\ pfr.result.raised => PositionMissing
        /\ ~pfr.result.raised =>
              /\ DefaultsOtherThanLevel(pfr.result.gs)
              /\ LevelAbsent => pfr.result.gs.my_level = 0

\* C15 amended: the same, but an absent agent level parses as 1, which
\* sets the protection flag
C15_AbsentFieldsDefault ==
    pfr.answered =>
        /\ pfr.result.raised => PositionMissing
        /\ ~pfr.result.raised =>
              /\ DefaultsOtherThanLevel(pfr.result.gs)
              /\ LevelAbsent => (pfr.result.gs.my_level = 1
                                 /\ pfr.result.gs.is_protected)

\* C15 witness: a snapshot without tick, without own structures, with an
\* agent without level, a chunk without sources and a source without
\* energy has been parsed
C15_Witness ==
    /\ pfr.answered
    /\ ~pfr.result.raised
    /\ Absent("tick")
    /\ Absent("myStructures")
    /\ ~Absent("agent")
    /\ LevelAbsent
    /\ ~Absent("visibleChunks")
    /\ "sources" \notin DOMAIN pfq.data.visibleChunks[1]
    /\ \E s \in Range(pfr.result.gs.sources) : "energy" \notin DOMAIN s

----------------------------------------------------------------------------
(* Properties of is_passable and reserve (passability laboratory)           *)

\* the tile carries an exclusion whose expiry tick the snapshot tick has
\* not reached
ExclusionRunning(pos) ==
    /\ pos \in DOMAIN pfq.pf.action_buffer
    /\ pfq.pf.state.tick < pfq.pf.action_buffer[pos]

----------------------------------------------------------------------------
(* Properties of the phase order                                            *)

\* the lengths of the batch after each of the phases 1 to 7, computed from
\* the snapshot (these phases read neither the strategy nor the memory)
RECURSIVE PhaseEndsFrom(_, _, _)
PhaseEndsFrom(ctx, ends, n) ==
    IF n > 7 THEN ends
    ELSE CHOOSE out \in { PhaseEndsFrom(c, Append(ends, Len(c.actions)), n + 1) :
                              c \in {RunPhase(ctx, state, DEFAULT_STRATEGY, n)} } : TRUE

PhaseEnds ==
    PhaseEndsFrom([actions |-> <<>>, processed |-> {},
                   pf |-> Pathfinder(state, <<>>), placed |-> {}], <<>>, 1)

\* the phase that appended action i, given the lengths of the batch after
\* phases 1 to 7: past them a spawn action is of phase 10, an action of a
\* soldier of phase 9 and an action of a worker of phase 8
PhaseOfAction(ends, i) ==
    IF i <= ends[7] THEN CHOOSE k \in 1..7 : i <= ends[k] /\ \A m \in 1..(k - 1) : i > ends[m]
    ELSE IF actions[i].type = "spawn" THEN 10
    ELSE IF UnitOf(actions[i].unitId).type = "soldier" THEN 9
    ELSE 8

\* C17: the batch lists the actions phase by phase in the order 1 to 10,
\* and no unit has actions of two different phases
C17_NoActionInLaterPhase ==
    pc = "send" =>
        LET ends == PhaseEnds
        IN  /\ ends[7] <= Len(actions)
            /\ \A i, j \in 1..Len(actions) :
                  i < j => PhaseOfAction(ends, i) <= PhaseOfAction(ends, j)
            /\ \A i, j \in UnitActs :
                  actions[i].unitId = actions[j].unitId =>
                      PhaseOfAction(ends, i) = PhaseOfAction(ends, j)

\* C17 witness: a soldier moved by phase 1 has an enemy in chasing range,
\* and a worker with energy for a tower acted in one of the phases 2 to 7
\* while the tower phase was open
C17_Witness ==
    /\ pc = "send"
    /\ LET ends == PhaseEnds
       IN  /\ \E i \in UnitActs :
                 /\ i <= ends[1]
                 /\ UnitOf(actions[i].unitId).type = "soldier"
                 /\ Len(state.enemies) > 0
           /\ \E i \in UnitActs :
                 /\ i > ends[1]
                 /\ i <= ends[7]
                 /\ Get(UnitOf(actions[i].unitId), "energy", 0) >= 100
    /\ Len(get_spawns(state)) > 0
    /\ Len(get_towers(state)) + Len(state.construction_sites) < Get(strategy, "tower_cap", 30)

----------------------------------------------------------------------------
(* Properties of the tower phase                                            *)

\* the build actions of the batch
Builds == {i \in UnitActs : actions[i].type = "build"}

\* the towers and the tower construction sites of the snapshot
TowersAndSites ==
    Len(get_towers(state))
    + Cardinality({k \in 1..Len(state.construction_sites) :
                     Get(state.construction_sites[k], "targetType", "None") = "tower"})

\* C18: the builds of the tick together with the towers and tower sites of
\* the snapshot stay within tower_cap, and there is no build at all when
\* towers and sites have reached the cap
C18_TowerCapRespected ==
    pc = "send" =>
        /\ Cardinality(Builds) + TowersAndSites <= Get(strategy, "tower_cap", 30)
        /\ TowersAndSites >= Get(strategy, "tower_cap", 30) => Builds = {}

\* the step is a decision pass: think() ran and returned its batch
ThinkStep == pc = "think" /\ pc' = "send"

\* C19: tower_sites_placed never loses a tile, and every build of a tick
\* records a tile that was not in it before (so no remembered tile is
\* selected again, in the same tick or in a later one)
C19_MemoryGrowsNoReselect ==
    /\ [][tower_sites_placed \subseteq tower_sites_placed']_vars
    /\ [][ThinkStep =>
             Cardinality(tower_sites_placed' \ tower_sites_placed)
                 = Cardinality(Builds')]_vars

\* C19 witness: a tick builds while the memory holds tiles of an earlier
\* tick
C19_Witness ==
    /\ pc = "send"
    /\ turn >= 1
    /\ Builds /= {}
    /\ Cardinality(tower_sites_placed) > Cardinality(Builds)

\* the tiles one step from the builders in the directions of the builds
BuildTiles ==
    {StepTo(PosOf(UnitOf(actions[i].unitId)), actions[i].direction) : i \in Builds}

\* C20: the tiles a tick records in tower_sites_placed are the tiles its
\* build actions point at
C20_RecordedTileIsBuildTile ==
    [][ThinkStep => (tower_sites_placed' \ tower_sites_placed) = BuildTiles']_vars

----------------------------------------------------------------------------
(* Properties of the spawning table, second part (spawning laboratory)      *)

\* the unit types of the spawn actions emitted for one spawn
SpawnedBy(sp) == {actions[i].unitType : i \in {j \in SpawnActs : actions[j].structureId = sp.id}}

\* C21: in economy (military) mode an accessible spawn with energy >=
\* reserve on which rule 1 does not fire spawns a soldier (worker) if and
\* only if twice the soldier (worker) count is below the cap
C21_HalfCapExact ==
    pc = "send" =>
        \A sp \in Range(get_spawns(state)) :
            (has_space(state, sp) /\ SpawnEnergy(sp) >= strategy.spawn_energy_reserve) =>
                /\ ( /\ strategy.priority_mode = "economy"
                     /\ ~(Len(get_workers(state)) < strategy.worker_cap /\ SpawnEnergy(sp) >= 100) )
                   => ("soldier" \in SpawnedBy(sp)
                          <=> 2 * Len(get_soldiers(state)) < strategy.soldier_cap)
                /\ ( /\ strategy.priority_mode = "military"
                     /\ ~(Len(get_soldiers(state)) < strategy.soldier_cap /\ SpawnEnergy(sp) >= 150) )
                   => ("worker" \in SpawnedBy(sp)
                          <=> 2 * Len(get_workers(state)) < strategy.worker_cap)

\* the cost of a unit type
UnitCost(unitType) == IF unitType = "soldier" THEN 150 ELSE 100

\* C22: a spawn action comes only from a spawn whose energy covers the
\* cost of the unit
C22_SpawnCoversCost ==
    pc = "send" =>
        \A sp \in Range(get_spawns(state)) :
            \A ut \in SpawnedBy(sp) : SpawnEnergy(sp) >= UnitCost(ut)

\* the number of spawn actions of one unit type in the batch
SpawnCount(ut) == Cardinality({i \in SpawnActs : actions[i].unitType = ut})

\* C23: the snapshot count plus the tick's spawns of a type stays within
\* the cap when the count was below it, and a spawn spawns at most once
C23_CapsBoundAfterSpawns ==
    pc = "send" =>
        /\ Len(get_workers(state)) < strategy.worker_cap =>
               Len(get_workers(state)) + SpawnCount("worker") <= strategy.worker_cap
        /\ Len(get_soldiers(state)) < strategy.soldier_cap =>
               Len(get_soldiers(state)) + SpawnCount("soldier") <= strategy.soldier_cap
        /\ \A sp \in Range(get_spawns(state)) :
               Cardinality({i \in SpawnActs : actions[i].structureId = sp.id}) <= 1

----------------------------------------------------------------------------
(* Properties of the evacuation of soldiers (evacuation laboratory)         *)

\* the position of the primary spawn (where there is an own spawn)
PrimaryPos == PosOf(primary_spawn_of(state)[1])

\* the soldiers of the snapshot, by index, within distance 2 of the primary
\* spawn
NearPrimary ==
    {k \in 1..Len(get_soldiers(state)) :
        dist(PosOf(get_soldiers(state)[k]), PrimaryPos) <= 2}

\* the near soldiers evaluated before soldier k: the closer ones, and those
\* as close that come earlier in the snapshot
EvaluatedBefore(k) ==
    LET d(j) == dist(PosOf(get_soldiers(state)[j]), PrimaryPos)
    IN  {j \in NearPrimary : d(j) < d(k) \/ (d(j) = d(k) /\ j < k)}

\* the move actions of soldier k
MovesOfSoldier(k) == {i \in Moves : actions[i].unitId = get_soldiers(state)[k].id}

\* the tiles reserved when soldier k is evaluated by phase 1
ReservedAt(k) ==
    {DestOf(i) : i \in UNION {MovesOfSoldier(j) : j \in EvaluatedBefore(k)}}

\* the neighbours of soldier k that are passable when it is evaluated, and
\* those of them farther from the primary spawn than the soldier
PassableAt(k) ==
    {p \in Neighbours4(PosOf(get_soldiers(state)[k])) :
        is_passable([Pathfinder(state, <<>>) EXCEPT !.reserved = ReservedAt(k)], p)}

AwayAt(k) ==
    {p \in PassableAt(k) :
        dist(p, PrimaryPos) > dist(PosOf(get_soldiers(state)[k]), PrimaryPos)}

NearOtherSpawn ==
    {k \in 1..Len(get_soldiers(state)) \ NearPrimary :
        /\ dist(PosOf(get_soldiers(state)[k]),
                PosOf(closest_of(get_spawns(state), PosOf(get_soldiers(state)[k])))) <= 2
        /\ \A i \in UnitActs : actions[i].unitId = get_soldiers(state)[k].id
                                    => actions[i].type = "move"}

\* the tiles reserved when action i was appended, or at the end of the pass
\* for a unit without an action
ReservedFor(id) ==
    IF \E i \in UnitActs : actions[i].unitId = id
    THEN ReservedBefore(CHOOSE i \in UnitActs : actions[i].unitId = id)
    ELSE reserved

\* the neighbours of soldier k that are passable when the soldier phase
\* evaluates it
PassableInSoldierPhase(k) ==
    {p \in Neighbours4(PosOf(get_soldiers(state)[k])) :
        is_passable([Pathfinder(state, <<>>) EXCEPT
                        !.reserved = ReservedFor(get_soldiers(state)[k].id)], p)}

\* C25: in the soldier phase a soldier that does not attack and is within
\* distance 2 of its nearest spawn moves if and only if a neighbour is
\* passable, strictly away from that spawn when a passable neighbour
\* allows it
C25_SoldierPhaseEvacuates ==
    pc = "send" =>
        \A k \in NearOtherSpawn :
            LET s    == get_soldiers(state)[k]
                sp   == PosOf(closest_of(get_spawns(state), PosOf(s)))
                pass == PassableInSoldierPhase(k)
                away == {p \in pass : dist(p, sp) > dist(PosOf(s), sp)}
            IN  /\ MovesOfSoldier(k) /= {} <=> pass /= {}
                /\ \A i \in MovesOfSoldier(k) :
                      DestOf(i) \in (IF away /= {} THEN away ELSE pass)

----------------------------------------------------------------------------
(* Properties of the declog phase (declog laboratory)                       *)

\* the actions phase 5 appended
DeclogActs == {i \in 1..Len(actions) : PhaseEnds[4] < i /\ i <= PhaseEnds[5]}

\* the worker's nearest source with energy
NearestSourcePos(wpos) == PosOf(closest_of(get_sources_with_energy(state), wpos))

\* the neighbours of the unit of action i that were passable when the
\* action was appended
PassableFor(i) ==
    {p \in Neighbours4(PosOf(UnitOf(actions[i].unitId))) :
        is_passable([Pathfinder(state, <<>>) EXCEPT !.reserved = ReservedBefore(i)], p)}

\* at most 30 declog actions, each a move of a worker with zero energy and
\* no earlier action, listed by increasing distance to the primary spawn
DeclogSelection ==
    /\ Cardinality(DeclogActs) <= 30
    /\ \A i \in DeclogActs :
          /\ actions[i].type = "move"
          /\ UnitOf(actions[i].unitId).type = "worker"
          /\ Get(UnitOf(actions[i].unitId), "energy", 0) = 0
          /\ \A j \in UnitActs : j < i => actions[j].unitId /= actions[i].unitId
    /\ \A i, j \in DeclogActs :
          i < j => dist(PosOf(UnitOf(actions[i].unitId)), PrimaryPos)
                      <= dist(PosOf(UnitOf(actions[j].unitId)), PrimaryPos)

\* C26 as stated: the declog selection, and no declog move ends farther
\* from the worker's nearest source with energy than it started
C26_DeclogNeverFarther ==
    pc = "send" =>
        /\ DeclogSelection
        /\ \A i \in DeclogActs :
              LET src == NearestSourcePos(PosOf(UnitOf(actions[i].unitId)))
              IN  dist(DestOf(i), src) <= dist(PosOf(UnitOf(actions[i].unitId)), src)

\* C26 amended: the declog selection, and every declog move goes to the
\* passable neighbour nearest the worker's nearest source with energy,
\* whether or not that is nearer than the worker's own tile
C26_DeclogBestNeighbour ==
    pc = "send" =>
        /\ DeclogSelection
        /\ \A i \in DeclogActs :
              LET src == NearestSourcePos(PosOf(UnitOf(actions[i].unitId)))
              IN  /\ DestOf(i) \in PassableFor(i)
                  /\ \A p \in PassableFor(i) : dist(DestOf(i), src) <= dist(p, src)

\* C26 witness: more than 30 empty workers, 30 declog moves, one of them
\* to a tile farther from the source because the nearer ones were taken
C26_Witness ==
    /\ pc = "send"
    /\ Len(get_workers(state)) > 30
    /\ Cardinality(DeclogActs) = 30
    /\ Cardinality(Moves) > 30
    /\ \E i \in DeclogActs :
          LET src == NearestSourcePos(PosOf(UnitOf(actions[i].unitId)))
          IN  dist(DestOf(i), src) > dist(PosOf(UnitOf(actions[i].unitId)), src)

----------------------------------------------------------------------------
(* Properties of the memory across the submission                           *)

\* the step is a submission that failed
FailedSubmit == pc = "send" /\ pc' = "sleep" /\ sent' = "failed"

\* C27: after a failed submission tower_sites_placed is what it was before
\* the tick.  Every build of the tick added one tile (C19), so the memory
\* must then hold as many tiles fewer as the failed batch has builds, and
\* none that it did not hold at the submission
C27_FailedBuildsNotRecorded ==
    [][FailedSubmit =>
          /\ tower_sites_placed' \subseteq tower_sites_placed
          /\ Cardinality(tower_sites_placed')
                 = Cardinality(tower_sites_placed) - Cardinality(Builds)]_vars

----------------------------------------------------------------------------
(* Properties of the A* search, second part (pathfinder laboratory)         *)

\* C28 as stated: the search is left with at most 30 * max_steps expanded
\* nodes, and with no path only when that budget is used up or the
\* frontier is empty
C28_BudgetThirtyTimes ==
    pfr.answered =>
        /\ pfr.search.exited
        /\ pfr.search.expanded <= 30 * pfq.max_steps
        /\ pfr.path = None =>
              (pfr.search.expanded = 30 * pfq.max_steps \/ pfr.search.frontier = 0)

\* C28 amended: the same with a budget of 10 * max_steps, and a path is
\* returned only with its last node within distance 1 of the goal
C28_BudgetTenTimes ==
    pfr.answered =>
        /\ pfr.search.exited
        /\ pfr.search.expanded <= 10 * pfq.max_steps
        /\ pfr.path = None =>
              (pfr.search.expanded = 10 * pfq.max_steps \/ pfr.search.frontier = 0)
        /\ pfr.path /= None => dist(pfr.path[Len(pfr.path)], pfq.goal) <= 1

\* C28 witness: a search with max_steps = 30 left without a path, the
\* budget used up and the frontier not empty
C28_Witness ==
    /\ pfr.answered
    /\ pfq.max_steps = 30
    /\ pfr.path = None
    /\ pfr.search.expanded = 300
    /\ pfr.search.frontier > 0

----------------------------------------------------------------------------
(* Properties of the state kept between ticks                               *)

\* outside a decision pass and at its start nothing of an earlier pass is
\* left: no batch, no processed unit, no reserved tile
StartClean ==
    pc \in {"top", "fetch", "think", "sleep", "done"} =>
        /\ actions = <<>>
        /\ processed = {}
        /\ reserved = {}

\* at the end of a pass the processed set holds exactly the units of this
\* pass's actions and the reservation table exactly their tiles
TablesOfThisPass ==
    pc = "send" =>
        /\ processed = {actions[i].unitId : i \in UnitActs}
        /\ reserved = {ReservationOf(i) : i \in UnitActs}

\* the result of a pass is a function of the snapshot, the strategy file
\* and tower_sites_placed, computed from an empty processed set and an
\* empty reservation table; the send step leaves tower_sites_placed alone
DecisionsFromSnapshotAndMemory ==
    /\ [][ThinkStep =>
             LET out == think(state, strategy', tower_sites_placed, <<>>)
             IN  /\ actions' = out.actions
                 /\ processed' = out.processed
                 /\ reserved' = out.pf.reserved
                 /\ tower_sites_placed' = out.placed]_vars
    /\ [][pc = "send" /\ pc' = "sleep" =>
             tower_sites_placed' = tower_sites_placed]_vars

\* C29: the processed set and the reservation table are empty at the start
\* of every decision pass and hold, at its end, only what this pass put
\* there; between two passes nothing but tower_sites_placed is kept
C29_OnlyMemorySurvives ==
    /\ StartClean
    /\ TablesOfThisPass

\* C29 witness: a pass of a later tick has processed units and reserved
\* tiles while the memory holds the tiles an earlier pass built on
C29_Witness ==
    /\ pc = "send"
    /\ turn >= 1
    /\ processed /= {}
    /\ reserved /= {}
    /\ Cardinality(tower_sites_placed) > Cardinality(Builds)

----------------------------------------------------------------------------
(* Properties of tiles holding a structure of another owner                 *)

EnemyStructureTiles == {PosOf(s) : s \in Range(state.enemy_structures)}

\* C30: a tile holding a visible enemy structure is blocked for is_blocked
\* and not passable for the tick's pathfinder, and no move of the batch has
\* such a tile as its destination
C30_EnemyStructureBlocked ==
    pc = "send" =>
        /\ \A pos \in EnemyStructureTiles :
              /\ is_blocked(state, pos)
              /\ ~is_passable(Pathfinder(state, <<>>), pos)
        /\ \A i \in Moves : DestOf(i) \notin EnemyStructureTiles
====
